---------------------------- MODULE Spec2Model ----------------------------
(***************************************************************************)
(* A model of src/src/scene.js (pv, the protein viewer): the object id     *)
(* pool (UniqueObjectIdPool, ContinuousIdRange), the geometry containers   *)
(* (BaseGeom, LineGeom, MeshGeom) with drawing, bounding and central-atom  *)
(* iteration under symmetry, the vertex array partitioner of MeshGeom, and *)
(* the Range accumulator.                                                  *)
(*                                                                         *)
(* The id space of the pool (65536 ids, scene.js:842) and the vertex cap   *)
(* of one vertex array (65536, scene.js:502) are scaled down to IdSpace    *)
(* and SegCap so that exhaustion, reuse and splitting happen within the    *)
(* bounds.                                                                 *)
(***************************************************************************)
EXTENDS Integers, Sequences, FiniteSets, TLC

\* ------------------------------------------------------------------ bounds
\* the pool's id space: 65536 in the source, scaled down
IdSpace == 4
\* the largest number of ids one getContinuousRange call asks for
MaxReq == 3
\* the vertex cap of one vertex array: 65536 in the source, scaled down
SegCap == 3
\* the largest vertex count and index count a chain is announced with
MaxVerts == 5
MaxIndices == 2

\* the largest number of ranges the owner of one container registers, and
\* the largest number of ids it asks for at once
MaxGeomRanges == 2
MaxGeomReq == 2

\* the largest number of segments a builder that announces and appends
\* without discipline makes
MaxSegs == 2

\* how often destroy is called on one container
MaxDestroys == 2

\* the largest index passed to symWithIndex
MaxSymIndex == 4

\* the values passed to Range.update are -MaxVal .. MaxVal, at most MaxUpdates
\* of them
MaxVal == 2
MaxUpdates == 3

\* ------------------------------------------------------ values of the code
\* no argument passed, or null passed: a list without elements; Some(x) is
\* the argument x
None == <<>>
Some(x) == <<x>>

\* the null that getContinuousRange returns; range objects are 1, 2, ...
Null == 0
\* what this._objects[id] yields for a key that is not in the table
Undefined == "undefined"

\* the objects handed to nextId (atoms, residues)
Objs == {"atomA", "atomB"}
Ids == 0 .. (IdSpace - 1)

\* the chains of the structure
Chains == {"A", "B"}
\* the chains rendered into the MeshGeom
MeshChains == {"A"}
\* the chain tag of a vertex array that belongs to no chain
NoChain == "-"
\* the null that a new container has as its showRelated name
NullName == "null"
\* the geometry containers: one LineGeom and one MeshGeom
Line == 1
Mesh == 2
Geoms == {Line, Mesh}

\* ------------------------------------------- the structure and its assemblies
\* the structure the containers are associated with
Structures == {"S"}

\* a symmetry generator: chains() and matrices(); a transform is the distance
\* it moves a position along the one axis of the model, 0 the identity
Generator(chains, matrices) == [chains |-> chains, matrices |-> matrices]

\* what structure.assembly(name) yields when there is no such assembly: null
NoAssembly == [null |-> TRUE, generators |-> <<>>]

\* structure.assembly(name): "1" maps chain A with three transforms and chain
\* B with one; "2" lists a chain twice, lists chain A in two generators, names
\* a chain the structure lacks and has a generator without transforms
Assembly(structure, name) ==
  IF name = "1"
  THEN [null |-> FALSE,
        generators |-> << Generator(<<"A">>, <<0, 1, 2>>),
                          Generator(<<"B">>, <<3>>) >>]
  ELSE IF name = "2"
  THEN [null |-> FALSE,
        generators |-> << Generator(<<"A", "B", "A">>, <<1>>),
                          Generator(<<"A", "C">>, <<0, 2>>),
                          Generator(<<"B">>, <<>>) >>]
  ELSE NoAssembly

\* the names a container is told to show: the asymmetric unit, the two
\* assemblies of the structure, and an assembly the structure lacks
RelatedNames == {"asym", "1", "2", "3"}

\* the residues of the structure in the order of eachResidue, with chain, the
\* central atom (NoAtom: centralAtom() is null) and the position of that atom
NoAtom == "null"
Residue(chain, atom, pos) == [chain |-> chain, centralAtom |-> atom, pos |-> pos]
Residues(structure) ==
  << Residue("A", "CA1", 1), Residue("A", NoAtom, 0), Residue("B", "CA3", 2) >>

\* the position of the vertices of a segment made for chain
ChainPos(chain) == IF chain = "A" THEN 1 ELSE 2

\* mutant: the position is passed on as it is
TransformMat4_Identity(pos, matrix) == pos

\* vec3.transformMat4(out, pos, matrix)
TransformMat4(pos, matrix) == pos + matrix

\* the shader catalog the renderer draws with: shaderCatalog[key] is key where
\* the catalog has the key
ShaderCatalog == {"select", "lines", "outline", "hemilight"}
Styles == {"hemilight", "phong"}
Passes == {"normal", "outline", "select"}
NoShader == "null"

VARIABLES
  \* UniqueObjectIdPool
  ranges,             \* every ContinuousIdRange created: [_start, _next, _end]
  objects,            \* _objects: a table from the ids present to objects
  unusedRangeStart,   \* _unusedRangeStart
  free,               \* _free: a list of range objects
  \* the pool's callers
  held,               \* ranges acquired by an owner and not released
  fromFree,           \* the held ranges that came from the free list
  issued,             \* per range: the ids nextId returned to its present owner
  given,              \* per id an owner holds: the object of the nextId returning it
  recycling,          \* the recycle call under way, statement by statement
  last,               \* the latest call: its name, arguments and result
  \* BaseGeom, LineGeom, MeshGeom: one entry per container
  vertArrays,         \* _vertArrays, _indexedVertArrays: the list of segments
  remainingVerts,     \* MeshGeom._remainingVerts
  remainingIndices,   \* MeshGeom._remainingIndices
  idRanges,           \* BaseGeom._idRanges: the list of registered ranges
  children,           \* SceneNode._children
  \* the owners of the containers; last names the container
  taken,              \* per registered range: the number of ids taken
  destroys,           \* per container: how often it was destroyed
  \* the builder that fills the MeshGeom
  build,              \* the chain under construction and what was appended
  \* BaseGeom, SceneNode: one entry per container
  visible,            \* SceneNode._visible
  showRelated,        \* BaseGeom._showRelated
  vertAssocs,         \* BaseGeom._vertAssocs: the structures of the associations
  \* what the latest operation on a container did
  calls,              \* its calls on segments, the context and the callback
  errors,             \* the number of its console.error entries
  \* Range
  interval,           \* one Range: [_empty, _min, _max]
  updates             \* the values passed to its update, in order

poolVars == <<ranges, objects, unusedRangeStart, free>>
callerVars == <<held, fromFree, issued, given, recycling>>
meshVars == <<vertArrays, remainingVerts, remainingIndices, build>>
nodeVars == <<idRanges, children, taken, destroys>>
viewVars == <<visible, showRelated, vertAssocs, calls, errors>>
rangeVars == <<interval, updates>>
vars == <<ranges, objects, unusedRangeStart, free,
          held, fromFree, issued, given, recycling, last,
          vertArrays, remainingVerts, remainingIndices, build,
          idRanges, children, taken, destroys,
          visible, showRelated, vertAssocs, calls, errors, interval, updates>>

\* ------------------------------------------------------ mutants of the pool
\* recycle pushes the range onto the free list before it clears it
RecycleStepOrder_PushFirst == <<"push", "delete", "reset">>

\* the high-water mark is not advanced
NextUnusedRangeStart_Stuck(end) == unusedRangeStart

\* the cursor of a recycled range is not reset
RecycleCursor_Kept(rngs, r) == rngs

\* the associations of a recycled range are not deleted
RecycleObjects_Kept(objs, range) == objs

\* the recycled range is put at the head of the free list
RecycleFree_Front(list, r) == <<r>> \o list

\* first fit: the first free range that is long enough
Better_FirstFit(length, num, bestLength) == length >= num /\ bestLength = -1

\* a free range of exactly the requested length is passed over
Better_Strict(length, num, bestLength) ==
  length > num /\ (bestLength = -1 \/ length < bestLength)

\* the high-water mark skips an id
NextUnusedRangeStart_Gap(end) == end + 1

\* the last id of the id space is never handed out
Exhausted_OffByOne(end) == end >= IdSpace

\* no chain is under construction
NoBuild == [kind |-> "none", chain |-> NoChain, verts |-> 0, indices |-> 0,
            first |-> 0, built |-> 0, builtIndices |-> 0, maxBatch |-> 0,
            pending |-> 0, started |-> {}]

\* ----------------------------------------------------- mutants of MeshGeom
\* the vertices of the last segment are not taken off the budget
RemainingVertsAfter_NotReduced(va) == remainingVerts[Mesh]

\* the capacity of a segment is whatever was asked for
BoundedVertArraySize_Unbounded(size) == size

\* the capacity of the last segment, not its vertices, is taken off the budget
RemainingVertsAfter_Capacity(va) == remainingVerts[Mesh] - va.maxVerts

\* a batch that fills the segment exactly is turned away
HasSpaceFor_Strict(va, numVerts) == va.maxVerts - va.numVerts > numVerts

\* ------------------------------------------------------- mutants of Range
\* update overwrites both ends
RangeUpdate_Assign(r, val) == [empty |-> FALSE, min |-> val, max |-> val]

\* -------------------------------------------------------------------- Range
\* new Range(min, max), args the list of arguments passed: a missing argument
\* is undefined
Range(args) ==
  IF Len(args) < 2
  THEN [empty |-> TRUE, min |-> Null, max |-> Null]
  ELSE [empty |-> FALSE, min |-> args[1], max |-> args[2]]

\* Range.update(val) on r
RangeUpdate(r, val) ==
  IF ~r.empty
  THEN IF val < r.min THEN [r EXCEPT !.min = val]
       ELSE IF val > r.max THEN [r EXCEPT !.max = val]
       ELSE r
  ELSE [empty |-> FALSE, min |-> val, max |-> val]

\* ------------------------------------------------------- ContinuousIdRange
\* new ContinuousIdRange(pool, start, end)
ContinuousIdRange(start, end) == [start |-> start, next |-> start, end |-> end]

\* ContinuousIdRange.length
RangeLength(r) == ranges[r].end - ranges[r].start

\* the id nextId returns: var id = this._next
NextIdResult(r) == ranges[r].next

\* nextId: this._next++
NextIdCursor(r) == [ranges EXCEPT ![r].next = ranges[r].next + 1]

\* nextId: this._pool._objects[id] = obj
NextIdObjects(id, obj) ==
  [k \in (DOMAIN objects) \cup {id} |-> IF k = id THEN obj ELSE objects[k]]

\* ------------------------------------------------------ UniqueObjectIdPool
\* the test of the best-fit loop; bestLength -1 stands for null
Better(length, num, bestLength) ==
  length >= num /\ (bestLength = -1 \/ length < bestLength)

\* the loop over this._free, from index i on (0-based, as in the code)
RECURSIVE ScanFree(_, _, _, _)
ScanFree(i, num, bestIndex, bestLength) ==
  IF i >= Len(free) THEN bestIndex
  ELSE LET length == RangeLength(free[i + 1])
       IN  IF Better(length, num, bestLength)
           THEN ScanFree(i + 1, num, i, length)
           ELSE ScanFree(i + 1, num, bestIndex, bestLength)

\* bestIndex after the loop; -1 when no free range fits
BestIndex(num) == ScanFree(0, num, -1, -1)

\* this._free.splice(index, 1), index 0-based
Splice(list, index) ==
  [k \in 1 .. (Len(list) - 1) |-> IF k <= index THEN list[k] ELSE list[k + 1]]

\* var end = start + num
FreshEnd(start, num) == start + num

\* if (end > 65536)
Exhausted(end) == end > IdSpace

\* this._unusedRangeStart = end
NextUnusedRangeStart(end) == end

\* what getContinuousRange(num) returns: a range object or null
GetResult(num) ==
  IF BestIndex(num) # -1 THEN free[BestIndex(num) + 1]
  ELSE IF Exhausted(FreshEnd(unusedRangeStart, num)) THEN Null
  ELSE Len(ranges) + 1

\* getContinuousRange(num): what it does to the pool
GetContinuousRange(num) ==
  IF BestIndex(num) # -1
  THEN /\ free' = Splice(free, BestIndex(num))
       /\ UNCHANGED <<ranges, objects, unusedRangeStart>>
  ELSE IF Exhausted(FreshEnd(unusedRangeStart, num))
  THEN UNCHANGED <<ranges, objects, unusedRangeStart, free>>
  ELSE /\ unusedRangeStart' = NextUnusedRangeStart(FreshEnd(unusedRangeStart, num))
       /\ ranges' = Append(ranges,
            ContinuousIdRange(unusedRangeStart, FreshEnd(unusedRangeStart, num)))
       /\ UNCHANGED <<objects, free>>

\* recycle: for (i = range._start; i < range._next; ++i) delete this._objects[i]
\* on the table objs, for the range object range
RecycleObjects(objs, range) ==
  [k \in (DOMAIN objs) \ (range.start .. (range.next - 1)) |-> objs[k]]

\* recycle: range._next = range._start, for range r of the range objects rngs
RecycleCursor(rngs, r) == [rngs EXCEPT ![r].next = rngs[r].start]

\* recycle: this._free.push(range), on the free list list
RecycleFree(list, r) == Append(list, r)

\* recycle(range) on the pool p = [ranges, objects, free]: the pool afterwards
PoolRecycle(p, r) ==
  [ranges |-> RecycleCursor(p.ranges, r),
   objects |-> RecycleObjects(p.objects, p.ranges[r]),
   free |-> RecycleFree(p.free, r)]

\* the pool as it is
Pool == [ranges |-> ranges, objects |-> objects, free |-> free]

\* recycle(range)
Recycle(r) ==
  /\ objects' = PoolRecycle(Pool, r).objects
  /\ ranges' = PoolRecycle(Pool, r).ranges
  /\ free' = PoolRecycle(Pool, r).free
  /\ UNCHANGED unusedRangeStart

\* recycle, statement by statement: the loop of deletes, the cursor reset,
\* the push onto the free list
RecycleStepOrder == <<"delete", "reset", "push">>

\* no recycle call is under way
NoRecycle == [range |-> Null, step |-> 0, i |-> 0]

\* recycle: delete this._objects[i], on the table objs
DeleteId(objs, i) == [k \in (DOMAIN objs) \ {i} |-> objs[k]]

\* objectForId(id)
ObjectForId(id) == IF id \in DOMAIN objects THEN objects[id] ELSE Undefined

\* ---------------------------------------------------------------- MeshGeom
\* new MeshChainData(chain, gl, numVerts, numIndices, ...): an empty segment
\* of the declared capacities, tagged with the chain
MeshChainData(chain, numVerts, numIndices) ==
  [kind |-> "MeshChainData", chain |-> chain, maxVerts |-> numVerts,
   numVerts |-> 0, maxIndices |-> numIndices, numIndices |-> 0]

\* new IndexedVertexArray(gl, numVerts, numIndices, ...): an empty segment
\* of the declared capacities, without a chain
IndexedVertexArray(numVerts, numIndices) ==
  [kind |-> "IndexedVertexArray", chain |-> NoChain, maxVerts |-> numVerts,
   numVerts |-> 0, maxIndices |-> numIndices, numIndices |-> 0]

\* _boundedVertArraySize(size): Math.min(65536, size)
BoundedVertArraySize(size) == IF SegCap < size THEN SegCap ELSE size

\* addChainVertArray(chain, numVerts, numIndices) on the MeshGeom
AddChainVertArray(chain, numVerts, numIndices) ==
  /\ remainingVerts' = [remainingVerts EXCEPT ![Mesh] = numVerts]
  /\ remainingIndices' = [remainingIndices EXCEPT ![Mesh] = numIndices]
  /\ vertArrays' = [vertArrays EXCEPT ![Mesh] =
       Append(@, MeshChainData(chain, BoundedVertArraySize(numVerts), numIndices))]

\* addVertArray(numVerts, numIndices) on the MeshGeom
AddVertArray(numVerts, numIndices) ==
  /\ remainingVerts' = [remainingVerts EXCEPT ![Mesh] = numVerts]
  /\ remainingIndices' = [remainingIndices EXCEPT ![Mesh] = numIndices]
  /\ vertArrays' = [vertArrays EXCEPT ![Mesh] =
       Append(@, IndexedVertexArray(BoundedVertArraySize(numVerts), numIndices))]

\* vertArrayWithSpaceFor: currentVa, the last segment
CurrentVa == vertArrays[Mesh][Len(vertArrays[Mesh])]

\* vertArrayWithSpaceFor: remaining >= numVerts, with
\* remaining = currentVa.maxVerts() - currentVa.numVerts()
HasSpaceFor(va, numVerts) == va.maxVerts - va.numVerts >= numVerts

\* vertArrayWithSpaceFor: this._remainingVerts - currentVa.numVerts()
RemainingVertsAfter(va) == remainingVerts[Mesh] - va.numVerts

\* vertArrayWithSpaceFor: this._remainingIndices - currentVa.numIndices()
RemainingIndicesAfter(va) == remainingIndices[Mesh] - va.numIndices

\* vertArrayWithSpaceFor: the segment made when the last one is too full
NewVa(va) ==
  IF va.kind = "MeshChainData"
  THEN MeshChainData(va.chain, BoundedVertArraySize(RemainingVertsAfter(va)),
                     RemainingIndicesAfter(va))
  ELSE IndexedVertexArray(BoundedVertArraySize(RemainingVertsAfter(va)),
                          RemainingIndicesAfter(va))

\* the position in the segment list of what vertArrayWithSpaceFor returns
WithSpaceResult(numVerts) ==
  IF HasSpaceFor(CurrentVa, numVerts) THEN Len(vertArrays[Mesh])
  ELSE Len(vertArrays[Mesh]) + 1

\* vertArrayWithSpaceFor(numVerts) on the MeshGeom
VertArrayWithSpaceFor(numVerts) ==
  IF HasSpaceFor(CurrentVa, numVerts)
  THEN UNCHANGED <<vertArrays, remainingVerts, remainingIndices>>
  ELSE /\ remainingVerts' = [remainingVerts EXCEPT ![Mesh] = RemainingVertsAfter(CurrentVa)]
       /\ remainingIndices' = [remainingIndices EXCEPT ![Mesh] =
                                 RemainingIndicesAfter(CurrentVa)]
       /\ vertArrays' = [vertArrays EXCEPT ![Mesh] = Append(@, NewVa(CurrentVa))]

\* the builder appends numVerts vertices and numIndices indices to segment i:
\* addVertex and addTriangle of the segment advance its counts
AppendTo(i, numVerts, numIndices) ==
  [vertArrays EXCEPT ![Mesh][i].numVerts = @ + numVerts,
                     ![Mesh][i].numIndices = @ + numIndices]


\* ------------------------------------------- SceneNode, BaseGeom, LineGeom
\* new LineChainData(chain, gl, numVerts, ...): an empty segment of the
\* declared capacity, tagged with the chain
LineChainData(chain, numVerts) ==
  [kind |-> "LineChainData", chain |-> chain, maxVerts |-> numVerts,
   numVerts |-> 0, maxIndices |-> 0, numIndices |-> 0]

\* LineGeom.addChainVertArray(chain, numVerts)
LineAddChainVertArray(chain, numVerts) ==
  /\ vertArrays' = [vertArrays EXCEPT ![Line] = Append(@, LineChainData(chain, numVerts))]
  /\ UNCHANGED <<remainingVerts, remainingIndices>>

\* BaseGeom.addIdRange(range) on container c
AddIdRange(c, r) == idRanges' = [idRanges EXCEPT ![c] = Append(@, r)]

\* SceneNode.add(node) on container c
AddChild(c, node) == children' = [children EXCEPT ![c] = Append(@, node)]

\* the elements of a list
Elements(list) == {list[i] : i \in 1 .. Len(list)}

\* the containers below c in the scene graph
RECURSIVE Descendants(_)
Descendants(c) ==
  Elements(children[c]) \cup UNION {Descendants(d) : d \in Elements(children[c])}

\* destroy works on st = [ranges, objects, free, vertArrays, destroys]
RECURSIVE RecycleEach(_, _, _)
RECURSIVE DestroyEach(_, _, _)
RECURSIVE DestroyGeom(_, _)

\* BaseGeom.destroy: for (i = 0; i < this._idRanges.length; ++i)
\*   this._idRanges[i].recycle(), from index i on (0-based)
RecycleEach(st, list, i) ==
  IF i >= Len(list) THEN st
  ELSE LET p == PoolRecycle([ranges |-> st.ranges, objects |-> st.objects,
                             free |-> st.free], list[i + 1])
       IN  RecycleEach([st EXCEPT !.ranges = p.ranges, !.objects = p.objects,
                                  !.free = p.free], list, i + 1)

\* SceneNode.destroy: for (i = 0; i < this._children.length; ++i)
\*   this._children[i].destroy(), from index i on (0-based)
DestroyEach(st, list, i) ==
  IF i >= Len(list) THEN st
  ELSE DestroyEach(DestroyGeom(st, list[i + 1]), list, i + 1)

\* the ranges of the container are not recycled
BaseGeomDestroy_NoRecycle(st, c) == DestroyEach(st, children[c], 0)

\* BaseGeom.destroy on container c
BaseGeomDestroy(st, c) ==
  RecycleEach(DestroyEach(st, children[c], 0), idRanges[c], 0)

\* LineGeom.destroy, MeshGeom.destroy on container c: BaseGeom.destroy, then
\* every segment is destroyed and the segment list is emptied
DestroyGeom(st, c) ==
  [BaseGeomDestroy(st, c) EXCEPT !.vertArrays[c] = <<>>, !.destroys[c] = @ + 1]

\* the pool and the containers as they are
Scene == [ranges |-> ranges, objects |-> objects, free |-> free,
          vertArrays |-> vertArrays, destroys |-> destroys]

\* ------------------------------------- BaseGeom: drawing and bounding
\* one call made by an operation: fn on segment va of the container (0: on
\* the rendering context or the camera) with the transforms passed
Call(fn, va, transforms) == [fn |-> fn, va |-> va, transforms |-> transforms]

\* what an operation did: its calls, the number of its console.error entries,
\* what it returned and whether it threw
Outcome(cs, errs, ret, threw) ==
  [calls |-> cs, errors |-> errs, ret |-> ret, threw |-> threw]

\* the concatenation of a list of lists
RECURSIVE Flatten(_)
Flatten(lists) ==
  IF lists = <<>> THEN <<>> ELSE Head(lists) \o Flatten(Tail(lists))

\* this._vertAssocs[0]: undefined without an association, and structure()
\* throws a TypeError
HasStructure(c) == vertAssocs[c] # <<>>

\* BaseGeom.structure()
Structure(c) == vertAssocs[c][1]

\* vertArrays(): the segments of container c, by their position in the list
VertArrays(c) == [i \in 1 .. Len(vertArrays[c]) |-> i]

\* mutant: the segments are collected name by name
VertArraysInvolving_PerName(c, chains) ==
  Flatten([n \in 1 .. Len(chains) |->
            SelectSeq(VertArrays(c), LAMBDA i : vertArrays[c][i].chain = chains[n])])

\* mutant: every segment is taken, whatever its chain
VertArraysInvolving_All(c, chains) == VertArrays(c)

\* _vertArraysInvolving(chains)
VertArraysInvolving(c, chains) ==
  SelectSeq(VertArrays(c), LAMBDA i : vertArrays[c][i].chain \in Elements(chains))

\* shaderCatalog[key], shaderCatalog.key
CatalogGet(key) == IF key \in ShaderCatalog THEN key ELSE Undefined

\* mutant: the LineGeom resolves a shader in every pass
ShaderForStyleAndPass_LineOutline(c, style, pass) ==
  IF pass = "select" THEN CatalogGet("select")
  ELSE IF c = Line THEN CatalogGet("lines")
  ELSE IF pass = "outline" THEN CatalogGet("outline")
  ELSE IF CatalogGet(style) # Undefined THEN CatalogGet(style) ELSE NoShader

\* LineGeom.shaderForStyleAndPass, MeshGeom.shaderForStyleAndPass
ShaderForStyleAndPass(c, style, pass) ==
  IF c = Line
  THEN IF pass = "outline" THEN NoShader
       ELSE IF pass = "select" THEN CatalogGet("select")
       ELSE CatalogGet("lines")
  ELSE IF pass = "outline" THEN CatalogGet("outline")
       ELSE IF pass = "select" THEN CatalogGet("select")
       ELSE IF CatalogGet(style) # Undefined THEN CatalogGet(style) ELSE NoShader

\* draw: !shader
NotShader(shader) == shader \in {NoShader, Undefined}

\* the bind, draw, releaseAttribs calls on each of the segments vas
BindDrawRelease(vas) ==
  Flatten([k \in 1 .. Len(vas) |->
            << Call("bind", vas[k], None), Call("draw", vas[k], None),
               Call("releaseAttribs", vas[k], None) >>])

\* the drawSymmetryRelated call on each of the segments vas
EachDrawSymmetryRelated(vas, matrices) ==
  [k \in 1 .. Len(vas) |-> Call("drawSymmetryRelated", vas[k], matrices)]

\* LineGeom._drawVertArrays(cam, shader, vertArrays, additionalTransforms)
LineDrawVertArrays(vas, additionalTransforms) ==
  << Call("lineWidth", 0, None) >> \o
  IF additionalTransforms # None
  THEN EachDrawSymmetryRelated(vas, additionalTransforms[1])
  ELSE << Call("uniform1i", 0, None), Call("cam.bind", 0, None) >> \o
       BindDrawRelease(vas)

\* MeshGeom._drawVertArrays(cam, shader, indexedVertArrays, additionalTransforms)
MeshDrawVertArrays(vas, additionalTransforms) ==
  IF additionalTransforms # None
  THEN EachDrawSymmetryRelated(vas, additionalTransforms[1])
  ELSE << Call("cam.bind", 0, None), Call("uniform1i", 0, None) >> \o
       BindDrawRelease(vas)

\* this._drawVertArrays of container c
DrawVertArrays(c, vas, additionalTransforms) ==
  IF c = Line THEN LineDrawVertArrays(vas, additionalTransforms)
  ELSE MeshDrawVertArrays(vas, additionalTransforms)

\* _drawSymmetryRelated(cam, shader, assembly)
DrawSymmetryRelated(c, gens) ==
  Flatten([i \in 1 .. Len(gens) |->
            DrawVertArrays(c, VertArraysInvolving(c, gens[i].chains),
                           Some(gens[i].matrices))])

\* BaseGeom.draw(cam, shaderCatalog, style, pass) on container c
DrawOutcome(c, style, pass) ==
  IF ~visible[c] THEN Outcome(<<>>, 0, Null, FALSE)
  ELSE IF NotShader(ShaderForStyleAndPass(c, style, pass))
  THEN Outcome(<<>>, 0, Null, FALSE)
  ELSE IF showRelated[c] = "asym"
  THEN Outcome(DrawVertArrays(c, VertArrays(c), None), 0, Null, FALSE)
  ELSE IF ~HasStructure(c) THEN Outcome(<<>>, 0, Null, TRUE)
  ELSE IF Assembly(Structure(c), showRelated[c]).null
  THEN Outcome(DrawVertArrays(c, VertArrays(c), None), 1, Null, FALSE)
  ELSE Outcome(DrawSymmetryRelated(c, Assembly(Structure(c), showRelated[c]).generators),
               0, Null, FALSE)

\* the position a segment-level bounding call of container c looks at: the
\* position of the segment's vertices, moved by the transform if one is passed
ScannedPos(c, call) ==
  IF call.transforms = None THEN ChainPos(vertArrays[c][call.va].chain)
  ELSE TransformMat4(ChainPos(vertArrays[c][call.va].chain), call.transforms[1])

\* the interval after the segment-level updateProjectionIntervals calls cs
RECURSIVE ScanIntervals(_, _, _)
ScanIntervals(c, cs, iv) ==
  IF cs = <<>> THEN iv
  ELSE ScanIntervals(c, Tail(cs), RangeUpdate(iv, ScannedPos(c, Head(cs))))

\* segment-level updateSquaredSphereRadius: the larger of radius and the
\* squared distance of the scanned position from center
SegmentSquaredSphereRadius(c, call, center, radius) ==
  LET d == ScannedPos(c, call) - center
  IN  IF d * d > radius THEN d * d ELSE radius

\* the radius after the segment-level updateSquaredSphereRadius calls cs, each
\* given the radius the one before returned
RECURSIVE ScanRadius(_, _, _, _)
ScanRadius(c, cs, center, radius) ==
  IF cs = <<>> THEN radius
  ELSE ScanRadius(c, Tail(cs), center,
                  SegmentSquaredSphereRadius(c, Head(cs), center, radius))

\* mutant: a hidden container is scanned like a visible one
UpdateProjectionIntervalsOutcome_Visible(c, iv) ==
  Outcome([i \in 1 .. Len(vertArrays[c]) |-> Call("updateProjectionIntervals", i, None)],
          0,
          ScanIntervals(c, [i \in 1 .. Len(vertArrays[c]) |->
                              Call("updateProjectionIntervals", i, None)], iv),
          FALSE)

\* mutant: the transform is not passed on
UpdateProjectionIntervalsSym_NoTransform(c, gens) ==
  Flatten([i \in 1 .. Len(gens) |->
    Flatten([j \in 1 .. Len(gens[i].matrices) |->
      [k \in 1 .. Len(VertArraysInvolving(c, gens[i].chains)) |->
         Call("updateProjectionIntervals",
              VertArraysInvolving(c, gens[i].chains)[k], None)]])])

\* mutant: every segment is scanned twice
UpdateSquaredSphereRadiusAsym_Twice(c) ==
  [i \in 1 .. Len(vertArrays[c]) |-> Call("updateSquaredSphereRadius", i, None)] \o
  [i \in 1 .. Len(vertArrays[c]) |-> Call("updateSquaredSphereRadius", i, None)]

\* _updateProjectionIntervalsAsym: the calls
UpdateProjectionIntervalsAsym(c) ==
  [i \in 1 .. Len(vertArrays[c]) |-> Call("updateProjectionIntervals", i, None)]

\* updateProjectionIntervals, the loops over gens, matrices and affected
\* segments: the calls, each passing gen.matrix(j)
UpdateProjectionIntervalsSym(c, gens) ==
  Flatten([i \in 1 .. Len(gens) |->
    Flatten([j \in 1 .. Len(gens[i].matrices) |->
      [k \in 1 .. Len(VertArraysInvolving(c, gens[i].chains)) |->
         Call("updateProjectionIntervals",
              VertArraysInvolving(c, gens[i].chains)[k],
              Some(gens[i].matrices[j]))]])])

\* BaseGeom.updateProjectionIntervals on container c, iv the interval passed
UpdateProjectionIntervalsOutcome(c, iv) ==
  IF ~visible[c] THEN Outcome(<<>>, 0, iv, FALSE)
  ELSE IF showRelated[c] = "asym"
  THEN Outcome(UpdateProjectionIntervalsAsym(c), 0,
               ScanIntervals(c, UpdateProjectionIntervalsAsym(c), iv), FALSE)
  ELSE IF ~HasStructure(c) THEN Outcome(<<>>, 0, iv, TRUE)
  ELSE IF Assembly(Structure(c), showRelated[c]).null
  THEN Outcome(UpdateProjectionIntervalsAsym(c), 1,
               ScanIntervals(c, UpdateProjectionIntervalsAsym(c), iv), FALSE)
  ELSE LET cs == UpdateProjectionIntervalsSym(c,
                   Assembly(Structure(c), showRelated[c]).generators)
       IN  Outcome(cs, 0, ScanIntervals(c, cs, iv), FALSE)

\* _updateSquaredSphereRadiusAsym: the calls
UpdateSquaredSphereRadiusAsym(c) ==
  [i \in 1 .. Len(vertArrays[c]) |-> Call("updateSquaredSphereRadius", i, None)]

\* updateSquaredSphereRadius, the loops over gens, matrices and affected
\* segments: the calls; gen.matrix(j) is read into transform and the call is
\* updateSquaredSphereRadius(center, radius)
UpdateSquaredSphereRadiusSym(c, gens) ==
  Flatten([i \in 1 .. Len(gens) |->
    Flatten([j \in 1 .. Len(gens[i].matrices) |->
      [k \in 1 .. Len(VertArraysInvolving(c, gens[i].chains)) |->
         Call("updateSquaredSphereRadius",
              VertArraysInvolving(c, gens[i].chains)[k], None)]])])

\* BaseGeom.updateSquaredSphereRadius(center, radius) on container c
UpdateSquaredSphereRadiusOutcome(c, center, radius) ==
  IF ~visible[c] THEN Outcome(<<>>, 0, radius, FALSE)
  ELSE IF showRelated[c] = "asym"
  THEN Outcome(UpdateSquaredSphereRadiusAsym(c), 0,
               ScanRadius(c, UpdateSquaredSphereRadiusAsym(c), center, radius), FALSE)
  ELSE IF ~HasStructure(c) THEN Outcome(<<>>, 0, radius, TRUE)
  ELSE IF Assembly(Structure(c), showRelated[c]).null
  THEN Outcome(UpdateSquaredSphereRadiusAsym(c), 1,
               ScanRadius(c, UpdateSquaredSphereRadiusAsym(c), center, radius), FALSE)
  ELSE LET cs == UpdateSquaredSphereRadiusSym(c,
                   Assembly(Structure(c), showRelated[c]).generators)
       IN  Outcome(cs, 0, ScanRadius(c, cs, center, radius), FALSE)

\* ------------------------------------------------------------ symWithIndex
\* mutant: the index is not reduced from one generator to the next
NextIndex_Kept(index, gen) == index

\* symWithIndex: index -= gen[i].matrices().length
NextIndex(index, gen) == index - Len(gen.matrices)

\* symWithIndex: the loop over the generators, from generator i on; the
\* matrix found, or null
RECURSIVE SymScan(_, _, _)
SymScan(gens, i, index) ==
  IF i > Len(gens) THEN None
  ELSE IF Len(gens[i].matrices) > index THEN Some(gens[i].matrices[index + 1])
  ELSE SymScan(gens, i + 1, NextIndex(index, gens[i]))

\* BaseGeom.symWithIndex(index) on container c
SymWithIndexOutcome(c, index) ==
  IF showRelated[c] = "asym" THEN Outcome(<<>>, 0, None, FALSE)
  ELSE IF ~HasStructure(c) THEN Outcome(<<>>, 0, None, TRUE)
  ELSE IF Assembly(Structure(c), showRelated[c]).null
  THEN Outcome(<<>>, 0, None, FALSE)
  ELSE Outcome(<<>>, 0,
               SymScan(Assembly(Structure(c), showRelated[c]).generators, 1, index),
               FALSE)

\* ------------------------------------------------- central-atom iteration
\* callback(atom, pos)
Callback(atom, pos) == [fn |-> "callback", atom |-> atom, pos |-> pos]

\* the chains of the structure
StructureChains(structure) ==
  {Residues(structure)[i].chain : i \in 1 .. Len(Residues(structure))}

\* structure.chainsByName(names): the chains of these names that the structure
\* has, in the order of the names
ChainsByName(structure, names) ==
  SelectSeq(names, LAMBDA n : n \in StructureChains(structure))

\* chain.residues()
ChainResidues(structure, chain) ==
  SelectSeq(Residues(structure), LAMBDA r : r.chain = chain)

\* eachCentralAtomAsym(structure, callback): the callbacks
EachCentralAtomAsym(structure) ==
  Flatten([l \in 1 .. Len(Residues(structure)) |->
    IF Residues(structure)[l].centralAtom = NoAtom THEN <<>>
    ELSE << Callback(Residues(structure)[l].centralAtom,
                     Residues(structure)[l].pos) >>])

\* the callbacks of eachCentralAtomSym for one chain and one matrix
EachCentralAtomOfChain(structure, chain, matrix) ==
  Flatten([l \in 1 .. Len(ChainResidues(structure, chain)) |->
    IF ChainResidues(structure, chain)[l].centralAtom = NoAtom THEN <<>>
    ELSE << Callback(ChainResidues(structure, chain)[l].centralAtom,
                     TransformMat4(ChainResidues(structure, chain)[l].pos,
                                   matrix)) >>])

\* eachCentralAtomSym(structure, gens, callback): the callbacks
EachCentralAtomSym(structure, gens) ==
  Flatten([i \in 1 .. Len(gens) |->
    Flatten([j \in 1 .. Len(gens[i].matrices) |->
      Flatten([k \in 1 .. Len(ChainsByName(structure, gens[i].chains)) |->
        EachCentralAtomOfChain(structure,
                               ChainsByName(structure, gens[i].chains)[k],
                               gens[i].matrices[j])])])])

\* BaseGeom.eachCentralAtom(callback) on container c
EachCentralAtomOutcome(c) ==
  IF ~HasStructure(c) THEN Outcome(<<>>, 0, Null, TRUE)
  ELSE IF Assembly(Structure(c), showRelated[c]).null
  THEN Outcome(EachCentralAtomAsym(Structure(c)), 0, Null, FALSE)
  ELSE Outcome(EachCentralAtomSym(Structure(c),
                 Assembly(Structure(c), showRelated[c]).generators),
               0, Null, FALSE)

\* ------------------------------------------------------------ construction
\* new UniqueObjectIdPool(), and no caller has acted
InitPool ==
  /\ ranges = <<>>
  /\ objects = <<>>
  /\ unusedRangeStart = 0
  /\ free = <<>>
  /\ held = {}
  /\ fromFree = {}
  /\ issued = <<>>
  /\ given = <<>>
  /\ recycling = NoRecycle
  /\ last = [op |-> "new", arg |-> 0, ret |-> Null, ids |-> {}]

\* new LineGeom(gl, ...), new MeshGeom(gl, ...): no segments, budgets null
InitGeoms ==
  /\ vertArrays = [c \in Geoms |-> <<>>]
  /\ remainingVerts = [c \in Geoms |-> Null]
  /\ remainingIndices = [c \in Geoms |-> Null]
  /\ build = NoBuild
  /\ idRanges = [c \in Geoms |-> <<>>]
  /\ children = [c \in Geoms |-> <<>>]
  /\ taken = [c \in Geoms |-> <<>>]
  /\ destroys = [c \in Geoms |-> 0]

\* new LineGeom, new MeshGeom: visible (SceneNode), no associations and
\* _showRelated null (BaseGeom); nothing was called yet
InitView ==
  /\ visible = [c \in Geoms |-> TRUE]
  /\ showRelated = [c \in Geoms |-> NullName]
  /\ vertAssocs = [c \in Geoms |-> <<>>]
  /\ calls = <<>>
  /\ errors = 0

\* new Range()
InitRange ==
  /\ interval = Range(<<>>)
  /\ updates = <<>>

Init == InitPool /\ InitGeoms /\ InitView /\ InitRange

\* --------------------------------------------------------------- the pool

\* the ids nextId has returned to the present owner of r
IssuedIds(r) == {issued[r][j] : j \in 1 .. Len(issued[r])}

\* an owner asks for num ids and keeps the range it is given
Acquire(num) ==
  LET r == GetResult(num) IN
  /\ GetContinuousRange(num)
  /\ last' = [op |-> "getContinuousRange", arg |-> num, ret |-> r, ids |-> {}]
  /\ IF r = Null
     THEN UNCHANGED <<held, fromFree, issued>>
     ELSE /\ held' = held \cup {r}
          /\ fromFree' = IF BestIndex(num) # -1 THEN fromFree \cup {r} ELSE fromFree
          /\ issued' = [k \in 1 .. Len(ranges') |-> IF k = r THEN <<>>
                             ELSE issued[k]]
  /\ UNCHANGED <<given, recycling>>
  /\ UNCHANGED <<viewVars, rangeVars, meshVars, nodeVars>>

\* the owner of r takes its next id for obj; never more than length() ids
NextId(r, obj) ==
  /\ r \in held
  /\ Len(issued[r]) < RangeLength(r)
  /\ ranges' = NextIdCursor(r)
  /\ objects' = NextIdObjects(NextIdResult(r), obj)
  /\ issued' = [issued EXCEPT ![r] = Append(@, NextIdResult(r))]
  /\ given' = [k \in (DOMAIN given) \cup {NextIdResult(r)} |->
                 IF k = NextIdResult(r) THEN obj ELSE given[k]]
  /\ last' = [op |-> "nextId", arg |-> r, ret |-> NextIdResult(r), ids |-> {}]
  /\ UNCHANGED <<unusedRangeStart, free, held, fromFree, recycling>>
  /\ UNCHANGED <<viewVars, rangeVars, meshVars, nodeVars>>

\* the owner of r releases it: range.recycle()
Release(r) ==
  /\ r \in held
  /\ Recycle(r)
  /\ held' = held \ {r}
  /\ fromFree' = fromFree \ {r}
  /\ issued' = [issued EXCEPT ![r] = <<>>]
  /\ given' = [k \in (DOMAIN given) \ IssuedIds(r) |-> given[k]]
  /\ last' = [op |-> "recycle", arg |-> r, ret |-> Null, ids |-> IssuedIds(r)]
  /\ UNCHANGED recycling
  /\ UNCHANGED <<viewVars, rangeVars, meshVars, nodeVars>>

Next ==
  \/ \E num \in 1 .. MaxReq : Acquire(num)
  \/ \E r \in held, obj \in Objs : NextId(r, obj)
  \/ \E r \in held : Release(r)

Spec == Init /\ [][Next]_vars

\* ------------------------------------ the pool, recycle statement by statement
\* the statement the recycle call under way executes next
Statement == RecycleStepOrder[recycling.step]

\* the recycle call under way goes on to its next statement; after the last
\* one it returns and the owner has let go of the range
Proceed ==
  IF recycling.step < Len(RecycleStepOrder)
  THEN /\ recycling' = [recycling EXCEPT !.step = @ + 1]
       /\ UNCHANGED <<held, fromFree, issued, given>>
  ELSE /\ recycling' = NoRecycle
       /\ held' = held \ {recycling.range}
       /\ fromFree' = fromFree \ {recycling.range}
       /\ issued' = [issued EXCEPT ![recycling.range] = <<>>]
       /\ given' = [k \in (DOMAIN given) \ IssuedIds(recycling.range) |-> given[k]]

\* the owner of r calls range.recycle(): var i = range._start
RecycleEnter(r) ==
  /\ r \in held
  /\ recycling.step = 0
  /\ recycling' = [range |-> r, step |-> 1, i |-> ranges[r].start]
  /\ last' = [op |-> "recycle", arg |-> r, ret |-> Null, ids |-> IssuedIds(r)]
  /\ UNCHANGED <<poolVars, held, fromFree, issued, given>>
  /\ UNCHANGED <<viewVars, rangeVars, meshVars, nodeVars>>

\* one turn of the loop: i < range._next, delete this._objects[i], ++i
RecycleDelete ==
  /\ recycling.step # 0 /\ Statement = "delete"
  /\ recycling.i < ranges[recycling.range].next
  /\ objects' = DeleteId(objects, recycling.i)
  /\ recycling' = [recycling EXCEPT !.i = @ + 1]
  /\ last' = [op |-> "delete", arg |-> recycling.range, ret |-> Null, ids |-> {recycling.i}]
  /\ UNCHANGED <<ranges, unusedRangeStart, free, held, fromFree, issued, given>>
  /\ UNCHANGED <<viewVars, rangeVars, meshVars, nodeVars>>

\* the loop ends: i < range._next fails
RecycleDeleted ==
  /\ recycling.step # 0 /\ Statement = "delete"
  /\ ~(recycling.i < ranges[recycling.range].next)
  /\ Proceed
  /\ last' = [op |-> "deleted", arg |-> recycling.range, ret |-> Null, ids |-> {}]
  /\ UNCHANGED poolVars
  /\ UNCHANGED <<viewVars, rangeVars, meshVars, nodeVars>>

\* range._next = range._start
RecycleReset ==
  /\ recycling.step # 0 /\ Statement = "reset"
  /\ ranges' = RecycleCursor(ranges, recycling.range)
  /\ Proceed
  /\ last' = [op |-> "reset", arg |-> recycling.range, ret |-> Null, ids |-> {}]
  /\ UNCHANGED <<objects, unusedRangeStart, free>>
  /\ UNCHANGED <<viewVars, rangeVars, meshVars, nodeVars>>

\* this._free.push(range)
RecyclePush ==
  /\ recycling.step # 0 /\ Statement = "push"
  /\ free' = RecycleFree(free, recycling.range)
  /\ Proceed
  /\ last' = [op |-> "push", arg |-> recycling.range, ret |-> Null, ids |-> {}]
  /\ UNCHANGED <<ranges, objects, unusedRangeStart>>
  /\ UNCHANGED <<viewVars, rangeVars, meshVars, nodeVars>>

\* some caller looks up id: objectForId(id)
Lookup(id) ==
  /\ last' = [op |-> "objectForId", arg |-> id, ret |-> ObjectForId(id), ids |-> {}]
  /\ UNCHANGED <<poolVars, callerVars>>
  /\ UNCHANGED <<viewVars, rangeVars, meshVars, nodeVars>>

\* the object the owner of r assigns ids to: the first owner of a range and
\* the owners that got it from the free list have different objects
ObjectOf(r) == IF r \in fromFree THEN "atomB" ELSE "atomA"

\* the calls of the other callers fall between the statements of recycle; the
\* owner inside recycle makes no other call
NextSteps ==
  \/ \E num \in 1 .. MaxReq : Acquire(num)
  \/ \E r \in held \ {recycling.range} : NextId(r, ObjectOf(r))
  \/ \E id \in Ids : Lookup(id)
  \/ \E r \in held : RecycleEnter(r)
  \/ RecycleDelete
  \/ RecycleDeleted
  \/ RecycleReset
  \/ RecyclePush

SpecSteps == Init /\ [][NextSteps]_vars

\* ------------------------------------------------- the builder of a MeshGeom
\* the builder starts chain, announcing numVerts vertices and numIndices
\* indices; every chain of the structure is built once
StartChain(chain, numVerts, numIndices) ==
  /\ build.pending = 0
  /\ chain \notin build.started
  /\ AddChainVertArray(chain, numVerts, numIndices)
  /\ build' = [kind |-> "chain", chain |-> chain, verts |-> numVerts,
               indices |-> numIndices, first |-> Len(vertArrays[Mesh]) + 1,
               built |-> 0, builtIndices |-> 0, maxBatch |-> 0, pending |-> 0,
               started |-> build.started \cup {chain}]
  /\ last' = [op |-> "addChainVertArray", arg |-> numVerts,
              ret |-> Len(vertArrays[Mesh]) + 1, ids |-> {}]
  /\ UNCHANGED <<viewVars, rangeVars, poolVars, callerVars, nodeVars>>

\* the builder starts geometry that belongs to no chain, once
StartPlain(numVerts, numIndices) ==
  /\ build.pending = 0
  /\ NoChain \notin build.started
  /\ AddVertArray(numVerts, numIndices)
  /\ build' = [kind |-> "plain", chain |-> NoChain, verts |-> numVerts,
               indices |-> numIndices, first |-> Len(vertArrays[Mesh]) + 1,
               built |-> 0, builtIndices |-> 0, maxBatch |-> 0, pending |-> 0,
               started |-> build.started \cup {NoChain}]
  /\ last' = [op |-> "addVertArray", arg |-> numVerts,
              ret |-> Len(vertArrays[Mesh]) + 1, ids |-> {}]
  /\ UNCHANGED <<viewVars, rangeVars, poolVars, callerVars, nodeVars>>

\* before a batch of numVerts vertices the builder asks for a segment with
\* room for it; a batch is at most SegCap vertices and stays within what the
\* builder announced
AskSpace(numVerts) ==
  /\ build.kind # "none"
  /\ build.pending = 0
  /\ numVerts <= SegCap
  /\ build.built + numVerts <= build.verts
  /\ VertArrayWithSpaceFor(numVerts)
  /\ build' = [build EXCEPT !.pending = numVerts,
                            !.maxBatch = IF numVerts > @ THEN numVerts ELSE @]
  /\ last' = [op |-> "vertArrayWithSpaceFor", arg |-> numVerts,
              ret |-> WithSpaceResult(numVerts), ids |-> {}]
  /\ UNCHANGED <<viewVars, rangeVars, poolVars, callerVars, nodeVars>>

\* the builder writes the batch, and numIndices indices, into the segment it
\* was given
WriteBatch(numIndices) ==
  /\ build.pending > 0
  /\ build.builtIndices + numIndices <= build.indices
  /\ vertArrays' = AppendTo(last.ret, build.pending, numIndices)
  /\ build' = [build EXCEPT !.pending = 0,
                            !.built = @ + build.pending,
                            !.builtIndices = @ + numIndices]
  /\ last' = [op |-> "write", arg |-> build.pending, ret |-> last.ret, ids |-> {}]
  /\ UNCHANGED <<viewVars, rangeVars, poolVars, callerVars, nodeVars, remainingVerts, remainingIndices>>

NextMesh ==
  \/ \E chain \in MeshChains, v \in 1 .. MaxVerts, i \in 0 .. MaxIndices :
       StartChain(chain, v, i)
  \/ \E v \in 1 .. MaxVerts, i \in 0 .. MaxIndices : StartPlain(v, i)
  \/ \E n \in 1 .. SegCap : AskSpace(n)
  \/ \E i \in 0 .. MaxIndices : WriteBatch(i)

SpecMesh == Init /\ [][NextMesh]_vars

\* ------------------------------------- a builder that announces anything
\* addChainVertArray with any estimate, at any time
AnyAddChainVertArray(chain, numVerts, numIndices) ==
  /\ Len(vertArrays[Mesh]) < MaxSegs
  /\ AddChainVertArray(chain, numVerts, numIndices)
  /\ last' = [op |-> "addChainVertArray", arg |-> numVerts,
              ret |-> Len(vertArrays[Mesh]) + 1, ids |-> {}]
  /\ UNCHANGED <<poolVars, callerVars, nodeVars, viewVars, rangeVars, build>>

\* addVertArray with any estimate, at any time
AnyAddVertArray(numVerts, numIndices) ==
  /\ Len(vertArrays[Mesh]) < MaxSegs
  /\ AddVertArray(numVerts, numIndices)
  /\ last' = [op |-> "addVertArray", arg |-> numVerts,
              ret |-> Len(vertArrays[Mesh]) + 1, ids |-> {}]
  /\ UNCHANGED <<poolVars, callerVars, nodeVars, viewVars, rangeVars, build>>

\* vertArrayWithSpaceFor for a batch of any size, once there is a segment
AnyVertArrayWithSpaceFor(numVerts) ==
  /\ vertArrays[Mesh] # <<>>
  /\ HasSpaceFor(CurrentVa, numVerts) \/ Len(vertArrays[Mesh]) < MaxSegs
  /\ VertArrayWithSpaceFor(numVerts)
  /\ last' = [op |-> "vertArrayWithSpaceFor", arg |-> numVerts,
              ret |-> WithSpaceResult(numVerts), ids |-> {}]
  /\ UNCHANGED <<poolVars, callerVars, nodeVars, viewVars, rangeVars, build>>

\* the builder appends numVerts vertices and numIndices indices to the segment
\* it was given last, never more vertices than the segment has room for
AnyAppend(numVerts, numIndices) ==
  /\ last.op \in {"addChainVertArray", "addVertArray", "vertArrayWithSpaceFor"}
  /\ HasSpaceFor(vertArrays[Mesh][last.ret], numVerts)
  /\ vertArrays' = AppendTo(last.ret, numVerts, numIndices)
  /\ last' = [op |-> "append", arg |-> numVerts, ret |-> last.ret, ids |-> {}]
  /\ UNCHANGED <<poolVars, callerVars, nodeVars, viewVars, rangeVars, build,
                 remainingVerts, remainingIndices>>

NextMeshAny ==
  \/ \E chain \in MeshChains, v \in 0 .. MaxVerts :
       AnyAddChainVertArray(chain, v, MaxIndices)
  \/ \E v \in 0 .. MaxVerts : AnyAddVertArray(v, MaxIndices)
  \/ \E n \in 1 .. (SegCap + 1) : AnyVertArrayWithSpaceFor(n)
  \/ \E n \in 1 .. SegCap : AnyAppend(n, 0)

SpecMeshAny == Init /\ [][NextMeshAny]_vars

\* ------------------------------------------- the renderer of a container
\* container c is as it was constructed
Untouched(c) ==
  /\ visible[c] /\ showRelated[c] = NullName
  /\ vertAssocs[c] = <<>> /\ vertArrays[c] = <<>>

\* the operations on a container read and write that container only: the
\* renderer is followed on one container, the other stays as constructed
Viewed(c) == \A d \in Geoms \ {c} : Untouched(d)

\* the latest call on container c, with its arguments and its outcome
Called(op, c, args, o) ==
  /\ last' = [op |-> op, arg |-> c, ret |-> o.ret, ids |-> {},
              threw |-> o.threw, args |-> args]
  /\ calls' = o.calls
  /\ errors' = o.errors

\* the outcome of a call that only sets a field
Done == Outcome(<<>>, 0, Null, FALSE)

\* addVertAssoc(assoc), assoc an association with structure
AddVertAssoc(c, structure) ==
  /\ Viewed(c)
  /\ vertAssocs[c] = <<>>
  /\ vertAssocs' = [vertAssocs EXCEPT ![c] = Append(@, structure)]
  /\ Called("addVertAssoc", c, <<structure>>, Done)
  /\ UNCHANGED <<poolVars, callerVars, meshVars, nodeVars, rangeVars,
                 visible, showRelated>>

\* setShowRelated(rel)
SetShowRelated(c, rel) ==
  /\ Viewed(c)
  /\ showRelated' = [showRelated EXCEPT ![c] = rel]
  /\ Called("setShowRelated", c, <<rel>>, Done)
  /\ UNCHANGED <<poolVars, callerVars, meshVars, nodeVars, rangeVars,
                 visible, vertAssocs>>

\* show()
Show(c) ==
  /\ Viewed(c)
  /\ visible' = [visible EXCEPT ![c] = TRUE]
  /\ Called("show", c, <<>>, Done)
  /\ UNCHANGED <<poolVars, callerVars, meshVars, nodeVars, rangeVars,
                 showRelated, vertAssocs>>

\* hide()
Hide(c) ==
  /\ Viewed(c)
  /\ visible' = [visible EXCEPT ![c] = FALSE]
  /\ Called("hide", c, <<>>, Done)
  /\ UNCHANGED <<poolVars, callerVars, meshVars, nodeVars, rangeVars,
                 showRelated, vertAssocs>>

\* addChainVertArray for chain, of the LineGeom or of the MeshGeom
AddSegment(c, chain) ==
  /\ Viewed(c)
  /\ Len(vertArrays[c]) < MaxSegs
  /\ IF c = Line THEN LineAddChainVertArray(chain, SegCap)
                 ELSE AddChainVertArray(chain, SegCap, 0)
  /\ Called("addChainVertArray", c, <<chain>>, Done)
  /\ UNCHANGED <<poolVars, callerVars, nodeVars, rangeVars, build,
                 visible, showRelated, vertAssocs>>

\* draw(cam, shaderCatalog, style, pass)
Draw(c, style, pass) ==
  /\ Viewed(c)
  /\ Called("draw", c, <<style, pass>>, DrawOutcome(c, style, pass))
  /\ UNCHANGED <<poolVars, callerVars, meshVars, nodeVars, rangeVars,
                 visible, showRelated, vertAssocs>>

\* updateProjectionIntervals(xAxis, yAxis, zAxis, xInterval, yInterval,
\* zInterval): one axis, iv the interval passed for it
UpdateProjectionIntervals(c, iv) ==
  /\ Viewed(c)
  /\ Called("updateProjectionIntervals", c, <<iv>>,
            UpdateProjectionIntervalsOutcome(c, iv))
  /\ UNCHANGED <<poolVars, callerVars, meshVars, nodeVars, rangeVars,
                 visible, showRelated, vertAssocs>>

\* updateSquaredSphereRadius(center, radius)
UpdateSquaredSphereRadius(c, center, radius) ==
  /\ Viewed(c)
  /\ Called("updateSquaredSphereRadius", c, <<center, radius>>,
            UpdateSquaredSphereRadiusOutcome(c, center, radius))
  /\ UNCHANGED <<poolVars, callerVars, meshVars, nodeVars, rangeVars,
                 visible, showRelated, vertAssocs>>

\* eachCentralAtom(callback)
EachCentralAtom(c) ==
  /\ Viewed(c)
  /\ Called("eachCentralAtom", c, <<>>, EachCentralAtomOutcome(c))
  /\ UNCHANGED <<poolVars, callerVars, meshVars, nodeVars, rangeVars,
                 visible, showRelated, vertAssocs>>

\* symWithIndex(index)
SymWithIndex(c, index) ==
  /\ Viewed(c)
  /\ Called("symWithIndex", c, <<index>>, SymWithIndexOutcome(c, index))
  /\ UNCHANGED <<poolVars, callerVars, meshVars, nodeVars, rangeVars,
                 visible, showRelated, vertAssocs>>

\* the intervals, centers and radii passed to the bounding operations
PassedIntervals == {Range(<<>>), Range(<<2, 2>>)}
PassedCenters == {0, 2}
PassedRadii == {0, 5}

NextView ==
  \/ \E c \in Geoms, structure \in Structures : AddVertAssoc(c, structure)
  \/ \E c \in Geoms, rel \in RelatedNames : SetShowRelated(c, rel)
  \/ \E c \in Geoms : Show(c)
  \/ \E c \in Geoms : Hide(c)
  \/ \E c \in Geoms, chain \in Chains : AddSegment(c, chain)
  \/ \E c \in Geoms, style \in Styles, pass \in Passes : Draw(c, style, pass)
  \/ \E c \in Geoms, iv \in PassedIntervals : UpdateProjectionIntervals(c, iv)
  \/ \E c \in Geoms, center \in PassedCenters, radius \in PassedRadii :
       UpdateSquaredSphereRadius(c, center, radius)
  \/ \E c \in Geoms : EachCentralAtom(c)
  \/ \E c \in Geoms, index \in 0 .. MaxSymIndex : SymWithIndex(c, index)

SpecView == Init /\ [][NextView]_vars

\* ------------------------------------------------------ the user of a Range
\* interval.update(val)
Update(val) ==
  /\ Len(updates) < MaxUpdates
  /\ interval' = RangeUpdate(interval, val)
  /\ updates' = Append(updates, val)
  /\ last' = [op |-> "update", arg |-> val, ret |-> Null, ids |-> {}]
  /\ UNCHANGED <<poolVars, callerVars, meshVars, nodeVars, viewVars>>

NextRange == \E val \in (0 - MaxVal) .. MaxVal : Update(val)

SpecRange == Init /\ [][NextRange]_vars

\* --------------------------------------------- the owners of the containers
\* the ids the registered ranges of container c have assigned: [start, cursor)
AssignedIds(c) ==
  UNION {ranges[r].start .. (ranges[r].next - 1) : r \in Elements(idRanges[c])}

\* the owner of container c gets a range of num ids from the pool and registers
\* it with the container
GeomAcquire(c, num) ==
  LET r == GetResult(num) IN
  /\ destroys[c] = 0
  /\ Len(idRanges[c]) < MaxGeomRanges
  /\ GetContinuousRange(num)
  /\ last' = [op |-> "getContinuousRange", arg |-> c, ret |-> Null, ids |-> {}]
  /\ IF r = Null
     THEN UNCHANGED <<idRanges, taken>>
     ELSE /\ AddIdRange(c, r)
          /\ taken' = [taken EXCEPT ![c] = Append(@, 0)]
  /\ UNCHANGED <<viewVars, rangeVars, callerVars, meshVars, children, destroys>>

\* the owner of container c takes the next id of its k-th range for obj, never
\* more than length() ids
GeomNextId(c, k, obj) ==
  LET r == idRanges[c][k] IN
  /\ destroys[c] = 0
  /\ taken[c][k] < RangeLength(r)
  /\ ranges' = NextIdCursor(r)
  /\ objects' = NextIdObjects(NextIdResult(r), obj)
  /\ taken' = [taken EXCEPT ![c][k] = @ + 1]
  /\ last' = [op |-> "nextId", arg |-> c, ret |-> Null, ids |-> {}]
  /\ UNCHANGED <<viewVars, rangeVars, unusedRangeStart, free, callerVars, meshVars,
                 idRanges, children, destroys>>

\* a segment for chain is added to container c, once per chain
GeomAddSegment(c, chain) ==
  /\ destroys[c] = 0
  /\ \A i \in 1 .. Len(vertArrays[c]) : vertArrays[c][i].chain # chain
  /\ IF c = Line THEN LineAddChainVertArray(chain, SegCap)
                 ELSE AddChainVertArray(chain, SegCap, 0)
  /\ last' = [op |-> "addChainVertArray", arg |-> c, ret |-> Null, ids |-> {}]
  /\ UNCHANGED <<viewVars, rangeVars, poolVars, callerVars, build, nodeVars>>

\* node becomes a child of container c; the scene graph has no cycles
GeomAdd(c, node) ==
  /\ destroys[c] = 0 /\ destroys[node] = 0
  /\ node # c
  /\ node \notin Elements(children[c])
  /\ c \notin Descendants(node)
  /\ AddChild(c, node)
  /\ last' = [op |-> "add", arg |-> c, ret |-> Null, ids |-> {}]
  /\ UNCHANGED <<viewVars, rangeVars, poolVars, callerVars, meshVars, idRanges, taken, destroys>>

\* c.destroy() is called
DestroyCall(c) ==
  /\ LET after == DestroyGeom(Scene, c)
     IN  /\ ranges' = after.ranges
         /\ objects' = after.objects
         /\ free' = after.free
         /\ vertArrays' = after.vertArrays
         /\ destroys' = after.destroys
  /\ last' = [op |-> "destroy", arg |-> c, ret |-> Null, ids |-> AssignedIds(c)]
  /\ UNCHANGED <<viewVars, rangeVars, unusedRangeStart, callerVars, remainingVerts, remainingIndices,
                 build, idRanges, children, taken>>

\* container c is destroyed; a container is destroyed once, by its owner or
\* with its parent
GeomDestroy(c) ==
  /\ \A d \in {c} \cup Descendants(c) : destroys[d] = 0
  /\ DestroyCall(c)

\* container c is destroyed, whether or not it was destroyed before; no
\* container is destroyed more than MaxDestroys times
GeomDestroyAgain(c) ==
  /\ \A d \in {c} \cup Descendants(c) : destroys[d] < MaxDestroys
  /\ DestroyCall(c)

NextGeom ==
  \/ \E c \in Geoms, num \in 1 .. MaxGeomReq : GeomAcquire(c, num)
  \/ \E c \in Geoms : \E k \in 1 .. Len(idRanges[c]) : GeomNextId(c, k, "atomA")
  \/ \E c \in Geoms, chain \in MeshChains : GeomAddSegment(c, chain)
  \/ \E c \in Geoms, node \in Geoms : GeomAdd(c, node)
  \/ \E c \in Geoms : GeomDestroy(c)

SpecGeom == Init /\ [][NextGeom]_vars

\* the owners of the containers, with destroy called on any container at any
\* time; the containers have no segments
NextGeomAgain ==
  \/ \E c \in Geoms, num \in 1 .. MaxGeomReq : GeomAcquire(c, num)
  \/ \E c \in Geoms : \E k \in 1 .. Len(idRanges[c]) : GeomNextId(c, k, "atomA")
  \/ \E c \in Geoms, node \in Geoms : GeomAdd(c, node)
  \/ \E c \in Geoms : GeomDestroyAgain(c)

SpecGeomAgain == Init /\ [][NextGeomAgain]_vars

\* ------------------------------------------------------ claims on the pool
\* the ids of range r: [start, end)
Span(r) == ranges[r].start .. (ranges[r].end - 1)

\* the number of ids of all ranges in S
RECURSIVE TotalLength(_)
TotalLength(S) ==
  IF S = {} THEN 0
  ELSE LET r == CHOOSE x \in S : TRUE IN RangeLength(r) + TotalLength(S \ {r})

\* the positions (1-based) of the free ranges that hold at least num ids
Fitting(num) == {i \in 1 .. Len(free) : RangeLength(free[i]) >= num}

\* the best fit: the smallest fitting free range, the earliest of equals
BestFit(num) ==
  CHOOSE i \in Fitting(num) :
    \A j \in Fitting(num) :
      \/ RangeLength(free[i]) < RangeLength(free[j])
      \/ RangeLength(free[i]) = RangeLength(free[j]) /\ i <= j

\* list without its element at position i (1-based)
Without(list, i) ==
  [k \in 1 .. (Len(list) - 1) |-> IF k < i THEN list[k] ELSE list[k + 1]]

\* C1: the spans of the ranges held by owners are pairwise disjoint and lie
\* inside [0, IdSpace).
C1_HeldRangesDisjoint ==
  /\ \A r \in held : 0 <= ranges[r].start /\ ranges[r].start <= ranges[r].end
                     /\ ranges[r].end <= IdSpace
  /\ \A r1, r2 \in held : r1 # r2 => Span(r1) \cap Span(r2) = {}

\* C1: three ranges are held at once, one of them reused from the free list
C1_Witness ==
  /\ Cardinality(held) >= 3
  /\ fromFree # {}
  /\ \E r \in held : RangeLength(r) >= 2

\* C2: the ids nextId has returned to the owner of a held range since it was
\* acquired are pairwise distinct and lie in [start, end) of that range, for a
\* fresh range and for a reused one.
C2_NextIdsDistinctInRange ==
  \A r \in held :
    /\ \A j \in 1 .. Len(issued[r]) : issued[r][j] \in Span(r)
    /\ \A j, k \in 1 .. Len(issued[r]) : j # k => issued[r][j] # issued[r][k]

\* C2: a reused range and a fresh range have both handed out all their ids
C2_Witness ==
  /\ \E r \in fromFree : RangeLength(r) >= 2 /\ Len(issued[r]) = RangeLength(r)
  /\ \E r \in held \ fromFree : Len(issued[r]) = RangeLength(r)

\* C3: recycle(range) removes the association of every id in [start, cursor)
\* and of every id the range had handed out, resets the cursor to start, leaves
\* start and end alone, appends that range object to the free list and changes
\* the association of no other id.
C3_RecycleClearsAndFrees ==
  [][last'.op = "recycle" =>
      LET r == last'.arg
          assigned == ranges[r].start .. (ranges[r].next - 1)
      IN  /\ \A id \in assigned \cup IssuedIds(r) : ObjectForId(id)' = Undefined
          /\ \A id \in (DOMAIN objects) \ assigned : ObjectForId(id)' = ObjectForId(id)
          /\ DOMAIN objects' \subseteq DOMAIN objects
          /\ ranges' = [ranges EXCEPT ![r].next = ranges[r].start]
          /\ free' = free \o <<r>>
          /\ unusedRangeStart' = unusedRangeStart]_vars

\* C3: a range that had handed out two ids was recycled behind another free
\* range while another owner's associations exist
C3_Witness ==
  /\ last.op = "recycle"
  /\ Cardinality(last.ids) >= 2
  /\ \A id \in last.ids : ObjectForId(id) = Undefined
  /\ Len(free) >= 2 /\ free[Len(free)] = last.arg
  /\ \E r \in held : issued[r] # <<>>

\* C4: objectForId(id) is the object of the latest nextId that returned id when
\* a held range has handed id out, and none for every other id; id 0 included.
C4_LookupMatchesAssignment ==
  \A id \in 0 .. IdSpace :
    IF \E r \in held : id \in IssuedIds(r)
    THEN id \in DOMAIN given /\ ObjectForId(id) = given[id]
    ELSE ObjectForId(id) = Undefined

\* C4: id 0 was handed out again by a reused range, and another id of that
\* range is not handed out yet
C4_Witness ==
  \E r \in fromFree :
    /\ 0 \in IssuedIds(r) /\ ObjectForId(0) = "atomB"
    /\ \E id \in Span(r) : id \notin IssuedIds(r) /\ ObjectForId(id) = Undefined

\* C5: when a free range holds at least n ids, getContinuousRange(n) returns
\* the smallest such range, the earliest of equals, removes exactly it from
\* the free list and leaves the high-water mark alone.
C5_BestFit ==
  [][(last'.op = "getContinuousRange" /\ Fitting(last'.arg) # {}) =>
      /\ last'.ret = free[BestFit(last'.arg)]
      /\ free' = Without(free, BestFit(last'.arg))
      /\ unusedRangeStart' = unusedRangeStart
      /\ ranges' = ranges]_vars

\* C5: the range returned was reused; a longer free range was passed over and
\* a free range of the same length was not taken
C5_Witness ==
  /\ last.op = "getContinuousRange"
  /\ last.ret \in fromFree
  /\ \E i \in 1 .. Len(free) : RangeLength(free[i]) > RangeLength(last.ret)
  /\ \E i \in 1 .. Len(free) : RangeLength(free[i]) = RangeLength(last.ret)

\* C6: getContinuousRange(n) makes a new range only when no free range holds n
\* ids; the new range is [highWater, highWater + n) and the high-water mark
\* becomes highWater + n; when that would exceed IdSpace the call returns null
\* and leaves the high-water mark, the free list and the table as they were.
C6_FreshOrNull ==
  [][last'.op = "getContinuousRange" =>
      LET n == last'.arg IN
      /\ Len(ranges') # Len(ranges) => Fitting(n) = {}
      /\ Fitting(n) = {} =>
           IF unusedRangeStart + n > IdSpace
           THEN /\ last'.ret = Null
                /\ UNCHANGED <<ranges, objects, unusedRangeStart, free>>
           ELSE /\ last'.ret = Len(ranges) + 1
                /\ ranges' = ranges \o
                     <<[start |-> unusedRangeStart, next |-> unusedRangeStart,
                        end |-> unusedRangeStart + n]>>
                /\ unusedRangeStart' = unusedRangeStart + n
                /\ UNCHANGED <<objects, free>>]_vars

\* C6: a new range was made up to the very end of the id space, past free
\* ranges that are too short
C6_Witness ==
  /\ last.op = "getContinuousRange"
  /\ last.ret = Len(ranges) /\ last.ret \notin fromFree
  /\ free # <<>>
  /\ unusedRangeStart = IdSpace

\* C7, as claimed: whenever n plus the ids of the held ranges is at most
\* IdSpace, getContinuousRange(n) returns a range.
C7_Original ==
  \A n \in 1 .. MaxReq :
    n + TotalLength(held) <= IdSpace => GetResult(n) # Null

\* C7, amended: getContinuousRange(n) returns a range exactly when a free
\* range holds at least n ids or n plus the ids of all ranges made so far,
\* held or free, is at most IdSpace.
C7_NullOnlyPastHighWater ==
  \A n \in 1 .. MaxReq :
    GetResult(n) # Null <=>
      \/ Fitting(n) # {}
      \/ n + TotalLength(1 .. Len(ranges)) <= IdSpace

\* C7: no range is held, yet a request was refused: the free ids are split
\* over free ranges that are each too short
C7_Witness ==
  /\ last.op = "getContinuousRange" /\ last.ret = Null
  /\ held = {}
  /\ last.arg <= IdSpace
  /\ Len(free) >= 2

\* -------------------------------------------------- claims on the MeshGeom
\* the segments of the chain under construction: positions first .. last
BuildSegments == build.first .. Len(vertArrays[Mesh])

\* the vertices, and the indices, in the segments at positions S
RECURSIVE UsedVerts(_)
UsedVerts(S) ==
  IF S = {} THEN 0
  ELSE LET i == CHOOSE x \in S : TRUE
       IN  vertArrays[Mesh][i].numVerts + UsedVerts(S \ {i})

RECURSIVE UsedIndices(_)
UsedIndices(S) ==
  IF S = {} THEN 0
  ELSE LET i == CHOOSE x \in S : TRUE
       IN  vertArrays[Mesh][i].numIndices + UsedIndices(S \ {i})

\* a divided by b, rounded up
Ceil(a, b) == (a + b - 1) \div b

\* C9: vertArrayWithSpaceFor(n) returns the last segment and changes nothing
\* when that segment has n free vertex slots; otherwise it lowers the two
\* budgets by what the last segment holds, so that each is the announced total
\* less what all segments of the chain hold, and appends and returns an empty
\* segment of the same kind and chain with min(SegCap, remaining vertices)
\* vertex slots and as many index slots as indices remain.
C9_WithSpaceFor ==
  [][last'.op = "vertArrayWithSpaceFor" =>
      LET n == last'.arg
          list == vertArrays[Mesh]
          cur == list[Len(list)]
          verts == remainingVerts[Mesh] - cur.numVerts
          indices == remainingIndices[Mesh] - cur.numIndices
      IN  IF cur.maxVerts - cur.numVerts >= n
          THEN /\ last'.ret = Len(list)
               /\ UNCHANGED <<vertArrays, remainingVerts, remainingIndices>>
          ELSE /\ last'.ret = Len(list) + 1
               /\ remainingVerts'[Mesh] = verts
               /\ remainingIndices'[Mesh] = indices
               /\ verts = build.verts - UsedVerts(BuildSegments)
               /\ indices = build.indices - UsedIndices(BuildSegments)
               /\ vertArrays'[Mesh] = list \o
                    <<[kind |-> cur.kind, chain |-> cur.chain,
                       maxVerts |-> IF verts > SegCap THEN SegCap ELSE verts,
                       numVerts |-> 0, maxIndices |-> indices,
                       numIndices |-> 0]>>
               /\ vertArrays'[Line] = vertArrays[Line]]_vars

\* C9: the second build got a new segment of full size; the segment before
\* it holds indices and has free slots left
C9_Witness ==
  /\ last.op = "vertArrayWithSpaceFor"
  /\ last.ret = Len(vertArrays[Mesh])
  /\ build.first > 1
  /\ last.ret > build.first
  /\ vertArrays[Mesh][last.ret].numVerts = 0
  /\ vertArrays[Mesh][last.ret].maxVerts = SegCap
  /\ vertArrays[Mesh][last.ret - 1].numVerts < vertArrays[Mesh][last.ret - 1].maxVerts
  /\ vertArrays[Mesh][last.ret - 1].numIndices > 0

\* C10, as claimed: a chain of V vertices never has more than ceil(V / SegCap)
\* segments.
C10_Original ==
  build.kind = "chain" =>
    Cardinality(BuildSegments) <= Ceil(build.verts, SegCap)

\* C10, amended: a chain of V >= 1 vertices appended in batches of at most B
\* vertices never has more than ceil(V / (SegCap - B + 1)) segments, which is
\* ceil(V / SegCap) for batches of one vertex.
C10_SegmentsBoundedByBatch ==
  build.kind = "chain" =>
    LET B == IF build.maxBatch = 0 THEN 1 ELSE build.maxBatch
    IN  Cardinality(BuildSegments) <= Ceil(build.verts, SegCap - B + 1)

\* C10: a chain is complete and has more than ceil(V / SegCap) segments
C10_Witness ==
  /\ build.kind = "chain"
  /\ build.built = build.verts /\ build.pending = 0
  /\ Cardinality(BuildSegments) > Ceil(build.verts, SegCap)

\* ------------------------------------------------ claims on the containers
\* C8: when a container is destroyed, and with it the containers below it,
\* every range registered with it is recycled: no id that such a range had
\* assigned, [start, cursor), has an object afterwards, the range is in the free
\* list with its cursor at its start, and the segment list of the container is
\* empty.
C8_DestroyRecycles ==
  [][last'.op = "destroy" =>
      \A d \in {last'.arg} \cup Descendants(last'.arg) :
        /\ \A r \in Elements(idRanges[d]) :
             /\ \A id \in ranges[r].start .. (ranges[r].next - 1) :
                  ObjectForId(id)' = Undefined
             /\ r \in Elements(free')
             /\ ranges'[r].next = ranges'[r].start
        /\ vertArrays'[d] = <<>>
        /\ idRanges'[d] = idRanges[d]]_vars

\* C8: a container with a child, two registered ranges that had assigned
\* ids and a segment was destroyed
C8_Witness ==
  /\ last.op = "destroy"
  /\ children[last.arg] # <<>>
  /\ Len(idRanges[last.arg]) >= 2
  /\ Cardinality(last.ids) >= 2
  /\ \A id \in last.ids : ObjectForId(id) = Undefined
  /\ \A r \in Elements(idRanges[last.arg]) : r \in Elements(free)
  /\ \A d \in Geoms : destroys[d] = 1 /\ vertArrays[d] = <<>>
  /\ remainingVerts[Mesh] = SegCap

\* C11: every segment of the MeshGeom, whichever of addChainVertArray,
\* addVertArray and vertArrayWithSpaceFor made it and whatever was announced
\* and appended before, has a vertex capacity from 0 to the cap, and the
\* remaining-vertex budget is not negative, while no segment holds more
\* vertices than its capacity.
C11_CapacityClamped ==
  /\ \A i \in 1 .. Len(vertArrays[Mesh]) :
       /\ 0 <= vertArrays[Mesh][i].maxVerts
       /\ vertArrays[Mesh][i].maxVerts <= SegCap
       /\ vertArrays[Mesh][i].numVerts <= vertArrays[Mesh][i].maxVerts
  /\ remainingVerts[Mesh] >= 0

\* C11: after appends to the first segment, vertArrayWithSpaceFor made a
\* segment while more than the cap was left of the estimate
C11_Witness ==
  /\ last.op = "vertArrayWithSpaceFor"
  /\ last.ret = Len(vertArrays[Mesh])
  /\ last.ret > 1
  /\ vertArrays[Mesh][1].numVerts > 0
  /\ remainingVerts[Mesh] > SegCap
  /\ CurrentVa.maxVerts = SegCap

\* -------------------------------------------- claims on drawing and bounding
\* the sum of a list of numbers
RECURSIVE Sum(_)
Sum(list) == IF list = <<>> THEN 0 ELSE Head(list) + Sum(Tail(list))

\* how often t occurs in list
Occurrences(t, list) == Cardinality({j \in 1 .. Len(list) : list[j] = t})

\* the transforms of the model
Transforms == 0 .. 3

\* the latest call was op on a visible container that has a structure
OnVisible(op) ==
  /\ last.op = op
  /\ visible[last.arg]
  /\ HasStructure(last.arg)

\* the container of the latest call shows an assembly the structure has
ActiveAssembly ==
  /\ showRelated[last.arg] # "asym"
  /\ ~Assembly(Structure(last.arg), showRelated[last.arg]).null

\* the container of the latest call shows an assembly the structure lacks
DanglingAssembly ==
  /\ showRelated[last.arg] # "asym"
  /\ Assembly(Structure(last.arg), showRelated[last.arg]).null

\* the generators of the assembly the container of the latest call shows
Gens == Assembly(Structure(last.arg), showRelated[last.arg]).generators

\* the latest call, fn on segment i, is counted once per time it was passed t
CallsOf(fn, i, t) ==
  Sum([n \in 1 .. Len(calls) |->
        IF calls[n].fn = fn /\ calls[n].va = i
        THEN Occurrences(t, calls[n].transforms) ELSE 0])

\* how often the generators ask for segment i of the container under
\* transform t: once per generator that lists its chain and has t
Wanted(i, t) ==
  Sum([g \in 1 .. Len(Gens) |->
        IF \E n \in 1 .. Len(Gens[g].chains) :
             Gens[g].chains[n] = vertArrays[last.arg][i].chain
        THEN Occurrences(t, Gens[g].matrices) ELSE 0])

\* the number of draws of segment i by the latest call
DrawsOfSegment(i) ==
  Sum([n \in 1 .. Len(calls) |->
        IF calls[n].va # i THEN 0
        ELSE IF calls[n].fn = "drawSymmetryRelated" THEN Len(calls[n].transforms)
        ELSE IF calls[n].fn = "draw" THEN 1 ELSE 0])

\* the number of segment draws of the latest call
TotalDraws ==
  Sum([i \in 1 .. Len(vertArrays[last.arg]) |-> DrawsOfSegment(i)])

\* the catalog has a shader under key
Resolved(key) == key \in ShaderCatalog

\* C12: a draw of a visible container with a resolved shader and an active
\* assembly draws each segment once per (generator listing its chain,
\* transform of that generator) and in no other way; the number of segment
\* draws is the sum over the generators of matching segments x transforms; a
\* segment no generator lists is not drawn.
C12_SymmetryDrawCount ==
  (OnVisible("draw") /\ ActiveAssembly /\ ~last.threw /\
   ~NotShader(ShaderForStyleAndPass(last.arg, last.args[1], last.args[2])))
  =>
  /\ \A i \in 1 .. Len(vertArrays[last.arg]) :
       /\ \A t \in Transforms : CallsOf("drawSymmetryRelated", i, t) = Wanted(i, t)
       /\ DrawsOfSegment(i) =
            Sum([t \in 1 .. Cardinality(Transforms) |-> Wanted(i, t - 1)])
       /\ (\A t \in Transforms : Wanted(i, t) = 0) => DrawsOfSegment(i) = 0
  /\ \A n \in 1 .. Len(calls) : calls[n].va # 0 => calls[n].fn = "drawSymmetryRelated"
  /\ errors = 0

\* C12: segments for chains A and B were drawn under the assembly that gives
\* A three transforms and B one: A three times, B once, four draws
C12_Witness ==
  /\ OnVisible("draw") /\ showRelated[last.arg] = "1"
  /\ Len(vertArrays[last.arg]) = 2
  /\ vertArrays[last.arg][1].chain = "A" /\ vertArrays[last.arg][2].chain = "B"
  /\ DrawsOfSegment(1) = 3
  /\ DrawsOfSegment(2) = 1
  /\ TotalDraws = 4

\* the latest call was a draw that is to do nothing
DrewNothing == last.op = "draw" => calls = <<>> /\ errors = 0 /\ ~last.threw

\* C13 as stated: draw makes no call when the container is hidden, when the
\* LineGeom is drawn in the outline pass, and when the MeshGeom is drawn with
\* a style the catalog lacks, whatever the pass.
C13_Original ==
  last.op = "draw" =>
    /\ ~visible[last.arg] => DrewNothing
    /\ (last.arg = Line /\ last.args[2] = "outline") => DrewNothing
    /\ (last.arg = Mesh /\ ~Resolved(last.args[1])) => DrewNothing

\* C13: draw makes no call on a segment, the context or the camera when the
\* container is hidden or no shader is resolved: the LineGeom in the outline
\* pass, the MeshGeom with a style the catalog lacks in a pass other than
\* outline and select.
C13_NoShaderNoDraw ==
  last.op = "draw" =>
    /\ ~visible[last.arg] => DrewNothing
    /\ (last.arg = Line /\ last.args[2] = "outline") => DrewNothing
    /\ (last.arg = Mesh /\ ~Resolved(last.args[1])
          /\ last.args[2] \notin {"outline", "select"}) => DrewNothing
    /\ NotShader(ShaderForStyleAndPass(last.arg, last.args[1], last.args[2]))
         => DrewNothing

\* C13: a visible LineGeom with a segment, showing the asymmetric unit, was
\* drawn in the outline pass and nothing was called
C13_Witness ==
  /\ last.op = "draw" /\ last.arg = Line /\ last.args[2] = "outline"
  /\ visible[Line] /\ showRelated[Line] = "asym" /\ vertArrays[Line] # <<>>
  /\ calls = <<>>

\* the calls of the latest operation on segments, and those on the context
\* and the camera
SegmentCalls == SelectSeq(calls, LAMBDA x : x.va # 0)
ContextCalls == SelectSeq(calls, LAMBDA x : x.va = 0)

\* the segment calls are fns, in this order, on the first segment, then on the
\* second, and so on, all without a transform
OncePerSegment(fns) ==
  /\ Len(SegmentCalls) = Len(fns) * Len(vertArrays[last.arg])
  /\ \A i \in 1 .. Len(vertArrays[last.arg]) : \A n \in 1 .. Len(fns) :
       SegmentCalls[(i - 1) * Len(fns) + n] = Call(fns[n], i, None)

\* what the latest operation does for the asymmetric unit
AsAsym ==
  /\ ~last.threw
  /\ calls = ContextCalls \o SegmentCalls
  /\ last.op = "draw" =>
       /\ OncePerSegment(<<"bind", "draw", "releaseAttribs">>)
       /\ Len(ContextCalls) = IF last.arg = Line THEN 3 ELSE 2
       /\ \E n \in 1 .. Len(ContextCalls) : ContextCalls[n].fn = "cam.bind"
  /\ last.op = "updateProjectionIntervals" =>
       /\ OncePerSegment(<<"updateProjectionIntervals">>)
       /\ ContextCalls = <<>>
       /\ last.ret = ScanIntervals(last.arg, SegmentCalls, last.args[1])
  /\ last.op = "updateSquaredSphereRadius" =>
       /\ OncePerSegment(<<"updateSquaredSphereRadius">>)
       /\ ContextCalls = <<>>
       /\ last.ret = ScanRadius(last.arg, SegmentCalls, last.args[1], last.args[2])

\* the latest operation is one of draw (with a shader), updateProjectionIntervals
\* and updateSquaredSphereRadius on a visible container with a structure
Rendering ==
  /\ \/ OnVisible("draw") /\
        ~NotShader(ShaderForStyleAndPass(last.arg, last.args[1], last.args[2]))
     \/ OnVisible("updateProjectionIntervals")
     \/ OnVisible("updateSquaredSphereRadius")

\* C14: when the structure has no assembly of the showRelated name, draw,
\* updateProjectionIntervals and updateSquaredSphereRadius do not throw, log
\* one entry and make the calls they make for 'asym': the same context calls,
\* then every segment once, in order, without a transform.
C14_FallbackToAsym ==
  Rendering =>
    /\ DanglingAssembly => AsAsym /\ errors = 1
    /\ showRelated[last.arg] = "asym" => AsAsym /\ errors = 0

\* C14: updateSquaredSphereRadius on a container with two segments that
\* shows an assembly the structure lacks: two scans, one log entry
C14_Witness ==
  /\ OnVisible("updateSquaredSphereRadius") /\ DanglingAssembly
  /\ showRelated[last.arg] = "3"
  /\ Len(vertArrays[last.arg]) = 2
  /\ Len(calls) = 2
  /\ errors = 1
  /\ ~last.threw

\* C15: updateSquaredSphereRadius on a visible container with an active
\* assembly makes one segment-level call per (generator, transform, matching
\* segment), with the transform, and the radius it returns covers the
\* transformed position of every symmetry copy.
C15_RadiusCoversCopies ==
  (OnVisible("updateSquaredSphereRadius") /\ ActiveAssembly) =>
    \A i \in 1 .. Len(vertArrays[last.arg]) : \A t \in Transforms :
      /\ CallsOf("updateSquaredSphereRadius", i, t) = Wanted(i, t)
      /\ Wanted(i, t) > 0 =>
           last.ret >= (ChainPos(vertArrays[last.arg][i].chain) + t - last.args[1])
                       * (ChainPos(vertArrays[last.arg][i].chain) + t - last.args[1])

\* how often the calls cs have fn on segment i with transform t
CountIn(cs, fn, i, t) ==
  Sum([n \in 1 .. Len(cs) |->
        IF cs[n].fn = fn /\ cs[n].va = i THEN Occurrences(t, cs[n].transforms)
        ELSE 0])

\* C16: updateProjectionIntervals on a visible container with an active
\* assembly makes one segment-level call per (generator, transform, matching
\* segment), passing the transform: the (segment, transform) pairs that draw
\* renders; a segment no generator lists is not scanned.
C16_IntervalsPerCopy ==
  (OnVisible("updateProjectionIntervals") /\ ActiveAssembly) =>
    /\ ~last.threw /\ errors = 0
    /\ \A n \in 1 .. Len(calls) :
         /\ calls[n].fn = "updateProjectionIntervals"
         /\ calls[n].va \in 1 .. Len(vertArrays[last.arg])
         /\ Len(calls[n].transforms) = 1
    /\ \A i \in 1 .. Len(vertArrays[last.arg]) : \A t \in Transforms :
         /\ CallsOf("updateProjectionIntervals", i, t) = Wanted(i, t)
         /\ CallsOf("updateProjectionIntervals", i, t) =
              CountIn(DrawSymmetryRelated(last.arg, Gens), "drawSymmetryRelated", i, t)
    /\ last.ret = ScanIntervals(last.arg, calls, last.args[1])

\* C16: segments A and B under assembly "2", which moves A by 0, 1 and 2 and
\* B by 1: four scans, and the interval [2, 2] has grown to [1, 3]
C16_Witness ==
  /\ OnVisible("updateProjectionIntervals") /\ showRelated[last.arg] = "2"
  /\ Len(vertArrays[last.arg]) = 2
  /\ vertArrays[last.arg][1].chain = "A" /\ vertArrays[last.arg][2].chain = "B"
  /\ Len(calls) = 4
  /\ ~last.args[1].empty
  /\ last.ret.min = 1 /\ last.ret.max = 3

\* C17: updateProjectionIntervals and updateSquaredSphereRadius on a hidden
\* container return what they were passed, the interval as it was and the
\* radius, whatever showRelated is, without asking for the structure and
\* without a call on a segment.
C17_HiddenContributesNothing ==
  (last.op \in {"updateProjectionIntervals", "updateSquaredSphereRadius"}
     /\ ~visible[last.arg]) =>
    /\ calls = <<>> /\ errors = 0 /\ ~last.threw
    /\ last.op = "updateProjectionIntervals" => last.ret = last.args[1]
    /\ last.op = "updateSquaredSphereRadius" => last.ret = last.args[2]

\* C17: a hidden container with a segment, without a structure and told to
\* show an assembly was asked for its projection intervals
C17_Witness ==
  /\ last.op = "updateProjectionIntervals"
  /\ ~visible[last.arg]
  /\ ~HasStructure(last.arg)
  /\ showRelated[last.arg] = "1"
  /\ vertArrays[last.arg] # <<>>
  /\ last.ret.empty
  /\ calls = <<>>

\* ------------------------------------------- claims on central-atom iteration
\* the chains generator g of the shown assembly names, as the structure has them
NamedChains(g) == ChainsByName(Structure(last.arg), Gens[g].chains)

\* the residues of the k-th chain named by generator g
NamedResidues(g, k) == ChainResidues(Structure(last.arg), NamedChains(g)[k])

\* the (generator, transform, chain, residue) quadruples of the shown assembly
\* whose residue has a central atom
Quads ==
  {q \in (1 .. 4) \X (1 .. 4) \X (1 .. 4) \X (1 .. 4) :
     /\ q[1] <= Len(Gens)
     /\ q[2] <= Len(Gens[q[1]].matrices)
     /\ q[3] <= Len(NamedChains(q[1]))
     /\ q[4] <= Len(NamedResidues(q[1], q[3]))
     /\ NamedResidues(q[1], q[3])[q[4]].centralAtom # NoAtom}

\* p comes before q: generator first, then transform, then chain, then residue
Before(p, q) ==
  \E n \in 1 .. 4 : p[n] < q[n] /\ \A k \in 1 .. (n - 1) : p[k] = q[k]

\* the place of q among the quadruples
Rank(q) == Cardinality({p \in Quads : Before(p, q)}) + 1

\* the callback the quadruple q asks for: the atom, and its position moved by
\* the transform
CallbackOf(q) ==
  Callback(NamedResidues(q[1], q[3])[q[4]].centralAtom,
           NamedResidues(q[1], q[3])[q[4]].pos + Gens[q[1]].matrices[q[2]])

\* the state eachCentralAtom could write: containers, pool, builder
Written ==
  <<poolVars, callerVars, meshVars, nodeVars, visible, showRelated, vertAssocs,
    rangeVars>>

\* C18: with an active assembly eachCentralAtom calls back once per
\* (generator, transform, chain named by the generator, residue with a central
\* atom), in that nested order, with the atom and its transformed position;
\* it writes nothing, and called again it makes the same callbacks.
C18_CentralAtomsPerCopy ==
  /\ []((last.op = "eachCentralAtom" /\ HasStructure(last.arg) /\ ActiveAssembly) =>
          /\ ~last.threw /\ errors = 0
          /\ Len(calls) = Cardinality(Quads)
          /\ \A q \in Quads : calls[Rank(q)] = CallbackOf(q))
  /\ [][last'.op = "eachCentralAtom" => UNCHANGED Written]_vars
  /\ [][(last.op = "eachCentralAtom" /\ last'.op = "eachCentralAtom"
           /\ last'.arg = last.arg) => calls' = calls]_vars

\* C18: under assembly "1" the atom of chain A was passed at 1, 2 and 3 and
\* then the atom of chain B at 5; the residue without central atom was skipped
C18_Witness ==
  /\ last.op = "eachCentralAtom" /\ HasStructure(last.arg)
  /\ showRelated[last.arg] = "1"
  /\ calls = << Callback("CA1", 1), Callback("CA1", 2), Callback("CA1", 3),
                Callback("CA3", 5) >>

\* C19: when the structure has no assembly of the showRelated name,
\* eachCentralAtom logs the condition, does not throw and calls back once per
\* residue with a central atom, with the untransformed position, as for
\* 'asym'.
C19_FallbackLogged ==
  (last.op = "eachCentralAtom" /\ HasStructure(last.arg) /\ DanglingAssembly) =>
    /\ ~last.threw
    /\ errors = 1
    /\ calls = << Callback("CA1", 1), Callback("CA3", 2) >>

\* ------------------------------------------------------- claims on the Range
\* the values passed to update so far
Passed == {updates[i] : i \in 1 .. Len(updates)}

\* C20: a Range created without bounds is empty until its first update; after
\* that it is not empty, min is the smallest and max the largest value passed
\* so far (so min <= max, and the interval depends on the values passed, not
\* on their order), and an update never raises min or lowers max.
C20_RangeTracksExtremes ==
  /\ [](interval.empty <=> updates = <<>>)
  /\ [](updates # <<>> =>
          /\ interval.min \in Passed /\ \A v \in Passed : interval.min <= v
          /\ interval.max \in Passed /\ \A v \in Passed : v <= interval.max
          /\ interval.min <= interval.max)
  /\ [][~interval.empty => interval'.min <= interval.min /\ interval'.max >= interval.max]_vars

\* C20: after three updates, the second below and the third above the first,
\* the interval spans them
C20_Witness ==
  /\ Len(updates) = 3
  /\ updates[2] < updates[1] /\ updates[1] < updates[3]
  /\ interval.min = updates[2] /\ interval.max = updates[3]
  /\ ~interval.empty

\* ------------------------------------------- claims on the layout of the pool
\* the ranges that exist: held by an owner or in the free list
Existing == held \cup Elements(free)

\* C23: the high-water mark never decreases and stays within [0, IdSpace];
\* every range ever created keeps its start and its end; every range created
\* is held or free, and the spans of these ranges tile [0, high-water mark):
\* each id below the mark lies in exactly one range, no range reaches past it.
C23_RangesTileBelowHighWater ==
  /\ [](unusedRangeStart \in 0 .. IdSpace)
  /\ [][unusedRangeStart' >= unusedRangeStart]_vars
  /\ [][/\ Len(ranges') >= Len(ranges)
        /\ \A r \in 1 .. Len(ranges) :
             /\ ranges'[r].start = ranges[r].start
             /\ ranges'[r].end = ranges[r].end]_vars
  /\ [](/\ Existing = 1 .. Len(ranges)
        /\ \A r \in Existing : ranges[r].end <= unusedRangeStart
        /\ \A id \in 0 .. (unusedRangeStart - 1) :
             Cardinality({r \in Existing : id \in Span(r)}) = 1)

\* C23: the id space is used up by three ranges or more, some held and some
\* free
C23_Witness ==
  /\ unusedRangeStart = IdSpace
  /\ Len(ranges) >= 3
  /\ held # {}
  /\ free # <<>>

\* ------------------------------------------------ claims on the room given
\* C24: when the builder of a chain or of plain geometry announced V vertices
\* and asks vertArrayWithSpaceFor(n) with n within the cap and within what is
\* left of V, the segment returned has at least n free vertex slots; so no
\* segment ever holds more vertices than its capacity.
C24_RoomForBatch ==
  /\ last.op = "vertArrayWithSpaceFor" =>
       vertArrays[Mesh][last.ret].maxVerts - vertArrays[Mesh][last.ret].numVerts
         >= last.arg
  /\ \A i \in 1 .. Len(vertArrays[Mesh]) :
       vertArrays[Mesh][i].numVerts <= vertArrays[Mesh][i].maxVerts

\* C24: in a chain, a segment was made for the batch that is smaller than the
\* cap and has exactly the room asked for
C24_Witness ==
  /\ last.op = "vertArrayWithSpaceFor"
  /\ build.kind = "chain"
  /\ last.ret > build.first
  /\ last.ret = Len(vertArrays[Mesh])
  /\ CurrentVa.maxVerts < SegCap
  /\ CurrentVa.maxVerts = last.arg

\* ------------------------------------------- claims on _vertArraysInvolving
\* the lists of chain names asked for: up to three names, also names given
\* twice and the name of a chain without segments
ChainLists == UNION {[1 .. n -> {"A", "B", "C"}] : n \in 0 .. 3}

\* C25: _vertArraysInvolving(chains) yields the segments of the container
\* whose chain tag occurs in chains, in the order of the segment list and each
\* once, however often chains names the chain and however many segments the
\* chain has; the segment list is as before.
C25_InvolvingSelectsByChain ==
  /\ [](\A c \in Geoms : \A chains \in ChainLists :
          LET r == VertArraysInvolving(c, chains) IN
          /\ \A k \in 1 .. Len(r) : r[k] \in 1 .. Len(vertArrays[c])
          /\ \A k \in 1 .. (Len(r) - 1) : r[k] < r[k + 1]
          /\ {r[k] : k \in 1 .. Len(r)} =
               {i \in 1 .. Len(vertArrays[c]) :
                  \E n \in 1 .. Len(chains) : chains[n] = vertArrays[c][i].chain})
  /\ [][last'.op \in {"draw", "updateProjectionIntervals",
                      "updateSquaredSphereRadius"}
         => vertArrays' = vertArrays]_vars

\* C25: a container whose chain A is split over two segments was drawn under
\* assembly "2", whose first generator names A twice: both segments, each once
C25_Witness ==
  /\ OnVisible("draw") /\ showRelated[last.arg] = "2"
  /\ calls # <<>>
  /\ Len(vertArrays[last.arg]) = 2
  /\ vertArrays[last.arg][1].chain = "A" /\ vertArrays[last.arg][2].chain = "A"
  /\ VertArraysInvolving(last.arg, Gens[1].chains) = <<1, 2>>
  /\ Len(SelectSeq(Gens[1].chains, LAMBDA n : n = "A")) = 2

\* --------------------------------------------------- claims on symWithIndex
\* the number of transforms of the generators before generator g
TransformsBefore(g) == Sum([h \in 1 .. (g - 1) |-> Len(Gens[h].matrices)])

\* the number of transforms of the shown assembly
TransformsInAll == TransformsBefore(Len(Gens) + 1)

\* C26: with an active assembly symWithIndex(index), index >= 0, returns the
\* transform at place index of the generators' transforms put one after the
\* other, that is of generator g at index less the transforms of the
\* generators before g, and null from the total number of transforms on; it
\* returns null for 'asym' and when the structure has no such assembly.
C26_SymWithIndexConcatenates ==
  last.op = "symWithIndex" =>
    /\ showRelated[last.arg] = "asym" => ~last.threw /\ last.ret = None
    /\ (HasStructure(last.arg) /\ DanglingAssembly) =>
         ~last.threw /\ last.ret = None
    /\ (HasStructure(last.arg) /\ ActiveAssembly) =>
         /\ ~last.threw
         /\ last.args[1] >= TransformsInAll => last.ret = None
         /\ \A g \in 1 .. Len(Gens) :
              (/\ TransformsBefore(g) <= last.args[1]
               /\ last.args[1] < TransformsBefore(g) + Len(Gens[g].matrices))
              => last.ret = Some(Gens[g].matrices[last.args[1] - TransformsBefore(g) + 1])
         /\ last.args[1] < TransformsInAll =>
              last.ret = Some(Flatten([g \in 1 .. Len(Gens) |-> Gens[g].matrices])
                               [last.args[1] + 1])

\* C26: under assembly "2", whose generators have one, two and no transforms,
\* index 2 gave the second transform of the second generator
C26_Witness ==
  /\ last.op = "symWithIndex" /\ HasStructure(last.arg)
  /\ showRelated[last.arg] = "2"
  /\ last.args[1] = 2
  /\ last.ret = Some(Gens[2].matrices[2])
  /\ last.ret = Some(2)

\* ------------------------------------ claims on recycle statement by statement
\* a recycle call on range r has begun and not returned
Unfinished(r) == recycling.step # 0 /\ recycling.range = r

\* no id of range r is in the pool's table
Cleared(r) == Span(r) \cap (DOMAIN objects) = {}

\* C21: with recycle run statement by statement between the calls of other
\* callers, a range whose recycle has not returned is not in the free list and
\* getContinuousRange does not return it; a range in the free list, and the
\* range getContinuousRange returns, has no id in the table and its cursor at
\* its start; every id of a held range that is in the table was assigned by the
\* present owner and maps to the present owner's object; looking up an id of
\* a free range yields undefined.
C21_RecycleStepsSafe ==
  /\ \A r \in Elements(free) :
       ~Unfinished(r) /\ Cleared(r) /\ ranges[r].next = ranges[r].start
  /\ (last.op = "getContinuousRange" /\ last.ret # Null) =>
       /\ ~Unfinished(last.ret)
       /\ Cleared(last.ret)
       /\ ranges[last.ret].next = ranges[last.ret].start
  /\ \A r \in held : ~Unfinished(r) =>
       \A id \in Span(r) \cap (DOMAIN objects) :
         id \in IssuedIds(r) /\ objects[id] = given[id]
  /\ last.op = "objectForId" =>
       \A r \in Elements(free) : last.arg \in Span(r) => last.ret = Undefined

\* C21: a caller was given a range from the free list while the recycle of
\* another range was inside its loop, one id deleted and one still in the table
C21_Witness ==
  /\ last.op = "getContinuousRange" /\ last.ret \in fromFree
  /\ recycling.step # 0 /\ Statement = "delete"
  /\ recycling.range # last.ret
  /\ recycling.i > ranges[recycling.range].start
  /\ recycling.i < ranges[recycling.range].next
  /\ recycling.i \in DOMAIN objects

\* ------------------------------------------------ claims on repeated destroy
\* a range object occurs at most once in the free list
C22_FreeOnce ==
  \A i, j \in 1 .. Len(free) : free[i] = free[j] => i = j

\* no range is both in the free list and registered with a container that
\* was not destroyed
C22_FreeNotHeld ==
  \A c \in Geoms : destroys[c] = 0 =>
    Elements(idRanges[c]) \cap Elements(free) = {}

\* the ids a container that was not destroyed has taken from its ranges are
\* in the table, whatever was done to other containers
C22_OthersKept ==
  \A c \in Geoms : destroys[c] = 0 =>
    \A k \in 1 .. Len(idRanges[c]) :
      /\ ranges[idRanges[c][k]].next = ranges[idRanges[c][k]].start + taken[c][k]
      /\ \A id \in ranges[idRanges[c][k]].start ..
                    (ranges[idRanges[c][k]].start + taken[c][k] - 1) :
           id \in DOMAIN objects

\* C22: for every sequence of getContinuousRange, addIdRange, nextId and
\* destroy calls, destroy on the same container more than once included, a
\* range occurs at most once in the free list, is never both free and
\* registered with a container that was not destroyed, and destroying one
\* container never clears the ids another container has assigned.
C22_DestroyKeepsRangesExclusive ==
  C22_FreeOnce /\ C22_FreeNotHeld /\ C22_OthersKept

=============================================================================
